---- MODULE Spec2Model ----
(***************************************************************************)
(* A model of the budget-metered state/event engine (subject.core), its    *)
(* membrane, and the crystallize / select / read / compose / export        *)
(* components that act on it through the workspace file system.            *)
(*                                                                         *)
(* Strings that are paths are sequences of lexical atoms: the separator    *)
(* and punctuation characters "/", "\\", ".", ":", single letters and      *)
(* digits, and fixed words (such as "crystals" or "crystal_") that contain *)
(* none of the punctuation characters.  Every Python string operation the  *)
(* code applies to a path is modelled on these sequences.                  *)
(***************************************************************************)
EXTENDS Integers, Sequences, FiniteSets, TLC

(***************************************************************************)
(* Python string helpers on atom sequences.                                *)
(***************************************************************************)

\* str.replace(old, new) for single characters
Replace(s, old, new) == [i \in 1..Len(s) |-> IF s[i] = old THEN new ELSE s[i]]

\* str.startswith(prefix)
StartsWith(s, prefix) ==
    /\ Len(prefix) <= Len(s)
    /\ SubSeq(s, 1, Len(prefix)) = prefix

RECURSIVE LStrip(_, _)
\* str.lstrip(chars)
LStrip(s, chars) ==
    IF s # << >> /\ Head(s) \in chars THEN LStrip(Tail(s), chars) ELSE s

RECURSIVE RStrip(_, _)
\* str.rstrip(chars)
RStrip(s, chars) ==
    IF s # << >> /\ s[Len(s)] \in chars
    THEN RStrip(SubSeq(s, 1, Len(s) - 1), chars)
    ELSE s

\* str.strip(chars)
Strip(s, chars) == RStrip(LStrip(s, chars), chars)

RECURSIVE SplitOn(_, _)
\* str.split(sep) generalised to a set of separator characters: the
\* sequence of (possibly empty) components between separators
SplitOn(s, seps) ==
    IF \A i \in 1..Len(s) : s[i] \notin seps
    THEN << s >>
    ELSE LET k == CHOOSE i \in 1..Len(s) :
                      /\ s[i] \in seps
                      /\ \A j \in 1..(i - 1) : s[j] \notin seps
         IN  << SubSeq(s, 1, k - 1) >> \o SplitOn(SubSeq(s, k + 1, Len(s)), seps)

\* the elements of a sequence, as a set
Range(s) == {s[i] : i \in 1..Len(s)}

\* the elements of a sequence that satisfy Keep, in order
RECURSIVE SelectParts(_)
SelectParts(parts) ==
    IF parts = << >> THEN << >>
    ELSE IF Head(parts) = << >> \/ Head(parts) = << "." >>
         THEN SelectParts(Tail(parts))
         ELSE << Head(parts) >> \o SelectParts(Tail(parts))

(***************************************************************************)
(* pathlib (CPython 3.11): PurePosixPath and PureWindowsPath parsing.      *)
(***************************************************************************)

\* string.ascii_letters restricted to the single-letter atoms of the model
DriveLetters == {"C", "x"}

\* the component ".."
ParentRef == << ".", "." >>

\* _PosixFlavour.splitroot: the root of a path ("", "/" or "//")
PosixRoot(s) ==
    IF s # << >> /\ Head(s) = "/"
    THEN IF Len(s) - Len(LStrip(s, {"/"})) = 2 THEN << "/", "/" >> ELSE << "/" >>
    ELSE << >>

\* PurePosixPath(s).parts without the root element: the components between
\* "/" separators, empty and "." components dropped
PosixParts(s) == SelectParts(SplitOn(s, {"/"}))

\* PurePosixPath(s).is_absolute()
PosixIsAbsolute(s) == PosixRoot(s) # << >>

\* the index of the first "\\" at or after position from, 0 if none
\* (str.find, 1-based)
FindSep(s, from) ==
    IF \E i \in from..Len(s) : s[i] = "\\"
    THEN CHOOSE i \in from..Len(s) :
             /\ s[i] = "\\"
             /\ \A j \in from..(i - 1) : s[j] # "\\"
    ELSE 0

\* splitroot of a path without a UNC prefix: an optional drive ("C:"), an
\* optional root, the rest
SplitDrive(s) ==
    LET hasDrive == Len(s) >= 2 /\ s[2] = ":" /\ s[1] \in DriveLetters
        afterDrive == IF hasDrive THEN SubSeq(s, 3, Len(s)) ELSE s
        hasRoot == afterDrive # << >> /\ Head(afterDrive) = "\\"
    IN  [drv |-> IF hasDrive THEN SubSeq(s, 1, 2) ELSE << >>,
         root |-> IF hasRoot THEN << "\\" >> ELSE << >>,
         rel |-> IF hasRoot THEN LStrip(afterDrive, {"\\"}) ELSE afterDrive]

\* splitroot of "\\\\machine\\mountpoint\\rest": index2 is where the
\* mountpoint ends (0: at the end of the path)
SplitUncShare(s, index, index2) ==
    IF index2 = index + 1 THEN SplitDrive(s)
    ELSE IF index2 = 0
         THEN [drv |-> s, root |-> << "\\" >>, rel |-> << >>]
         ELSE [drv |-> SubSeq(s, 1, index2 - 1), root |-> << "\\" >>,
               rel |-> SubSeq(s, index2 + 1, Len(s))]

\* splitroot of a path that starts with two separators: index is where
\* the machine name ends
SplitUnc(s, index) ==
    IF index = 0 THEN SplitDrive(s)
    ELSE SplitUncShare(s, index, FindSep(s, index + 1))

\* _WindowsFlavour.splitroot on the path with "/" replaced by "\\"
SplitRoot(s) ==
    IF Len(s) >= 3 /\ s[1] = "\\" /\ s[2] = "\\" /\ s[3] # "\\"
    THEN SplitUnc(s, FindSep(s, 3))
    ELSE SplitDrive(s)

\* _WindowsFlavour.splitroot: the drive, the root and the rest
WindowsSplitRoot(raw) == SplitRoot(Replace(raw, "/", "\\"))

\* PureWindowsPath(s).drive
WindowsDrive(s) == WindowsSplitRoot(s).drv

\* PureWindowsPath(s).root
WindowsRoot(s) == WindowsSplitRoot(s).root

\* PureWindowsPath(s).parts without the drive/root element
WindowsParts(s) == SelectParts(SplitOn(WindowsSplitRoot(s).rel, {"\\"}))

\* PureWindowsPath(s).is_absolute()
WindowsIsAbsolute(s) == WindowsDrive(s) # << >> /\ WindowsRoot(s) # << >>

(***************************************************************************)
(* The membrane: the path test of Subject.write_artifact.                  *)
(***************************************************************************)

\* has_parent_ref that parses the POSIX way only
HasParentRefPosix(rel_path) == ParentRef \in Range(PosixParts(rel_path))

\* has_parent_ref: ".." is a component under POSIX or Windows parsing
HasParentRef(rel_path) ==
    \/ ParentRef \in Range(PosixParts(rel_path))
    \/ ParentRef \in Range(WindowsParts(rel_path))

\* is_absolute: absolute under POSIX or Windows parsing
IsAbsolute(rel_path) == PosixIsAbsolute(rel_path) \/ WindowsIsAbsolute(rel_path)

\* has_drive_or_root: a Windows drive or root marker
HasDriveOrRoot(rel_path) ==
    WindowsDrive(rel_path) # << >> \/ WindowsRoot(rel_path) # << >>

\* a membrane that lets ".." through
MembraneDeniesAnchored(rel_path) == IsAbsolute(rel_path) \/ HasDriveOrRoot(rel_path)

\* the condition under which write_artifact denies a path
MembraneDenies(rel_path) ==
    IsAbsolute(rel_path) \/ HasDriveOrRoot(rel_path) \/ HasParentRef(rel_path)

(***************************************************************************)
(* The workspace file system.  A location is what Path(workspace_dir) /    *)
(* rel_path names on the host: anchored elsewhere (the joined path has a   *)
(* root or drive of its own), or a number of steps up from the workspace   *)
(* root followed by a sequence of components.  The host parses paths the   *)
(* POSIX or the Windows way.                                               *)
(***************************************************************************)

Hosts == {"posix", "windows"}

\* Subject.__init__: the default workspace_dir
WorkspaceDir == << "storage" >>

RECURSIVE Collapse(_, _, _)
\* the directory walk of a component sequence: ".." leaves the last
\* directory entered, or climbs above the start when none is left
Collapse(parts, up, stack) ==
    IF parts = << >> THEN [up |-> up, parts |-> stack]
    ELSE IF Head(parts) = ParentRef
         THEN IF stack = << >>
              THEN Collapse(Tail(parts), up + 1, stack)
              ELSE Collapse(Tail(parts), up, SubSeq(stack, 1, Len(stack) - 1))
         ELSE Collapse(Tail(parts), up, Append(stack, Head(parts)))

\* the location a joined path names: its own anchor, or the walk of its
\* components from the workspace root
Located(anchored, parts) ==
    IF anchored
    THEN [anchored |-> TRUE, up |-> 0, parts |-> parts]
    ELSE LET walk == Collapse(parts, 0, << >>)
         IN  [anchored |-> FALSE, up |-> walk.up, parts |-> walk.parts]

\* Path(workspace_dir) / rel_path on a Windows host
WindowsLocated(split) ==
    Located(split.drv # << >> \/ split.root # << >>,
            SelectParts(SplitOn(split.rel, {"\\"})))

\* Path(workspace_dir) / rel_path on the host
WorkspacePath(h, rel_path) ==
    IF h = "posix"
    THEN Located(PosixIsAbsolute(rel_path), PosixParts(rel_path))
    ELSE WindowsLocated(WindowsSplitRoot(rel_path))

\* the location is the workspace root or lies below it
InsideWorkspace(loc) == ~loc.anchored /\ loc.up = 0

\* proper prefix of component sequences
IsProperPrefix(a, b) == Len(a) < Len(b) /\ SubSeq(b, 1, Len(a)) = a

\* a directory exists at loc: the workspace root, or an ancestor of a file
IsDirectory(files, loc) ==
    \/ InsideWorkspace(loc) /\ loc.parts = << >>
    \/ \E f \in DOMAIN files :
          /\ f.anchored = loc.anchored /\ f.up = loc.up
          /\ IsProperPrefix(loc.parts, f.parts)

\* target.parent.mkdir(parents=True, exist_ok=True) or target.write_bytes
\* raises OSError: the target is a directory, or an ancestor is a file
WriteRaises(files, loc) ==
    \/ IsDirectory(files, loc)
    \/ \E f \in DOMAIN files :
          /\ f.anchored = loc.anchored /\ f.up = loc.up
          /\ IsProperPrefix(f.parts, loc.parts)

\* target_path.write_bytes(data)
WriteBytes(files, loc, data) ==
    [f \in DOMAIN files \cup {loc} |-> IF f = loc THEN data ELSE files[f]]

\* Path.exists() for a file
Exists(files, loc) == loc \in DOMAIN files

(***************************************************************************)
(* File contents.  A text is raw characters, the canonical JSON            *)
(* serialisation of a value, or rendered markdown.                         *)
(***************************************************************************)

\* content.encode("utf-8") of a raw string
RawText(chars) == [fmt |-> "text", text |-> chars]

\* _stable_json: json.dumps(value, sort_keys=True, separators=(",", ":")).
\* Keys are sorted, so the text is determined by the value alone.
StableJson(v) == [fmt |-> "json", value |-> v]

\* json.loads raises JSONDecodeError on a text that is not JSON
JsonDecodeError(text) == text.fmt # "json"

\* json.loads(text) of a JSON text
JsonLoads(text) == text.value

\* hashlib.sha256(text.encode("utf-8")).hexdigest(): a collision-free digest
Sha256(text) == [sha256 |-> text]

\* Python's None
None == [none |-> TRUE]

\* a returned path
Some(x) == [some |-> x]

\* len(data): the size of a text.  A raw text has one byte per character;
\* a JSON text grows with the number of keys and of list elements.
Utf8Len(text) ==
    IF text.fmt = "text" THEN Len(text.text)
    ELSE IF text.fmt = "json"
         THEN LET v == text.value IN
              Cardinality(DOMAIN v)
              + (IF "payload" \in DOMAIN v THEN Len(v.payload.events) ELSE 0)
              + (IF "crystals" \in DOMAIN v THEN Len(v.crystals) ELSE 0)
              + (IF "packets" \in DOMAIN v THEN Len(v.packets) ELSE 0)
              + (IF "history_tail" \in DOMAIN v THEN Len(v.history_tail) ELSE 0)
         ELSE Cardinality(DOMAIN text) + Len(text.history_tail)

(***************************************************************************)
(* The engine state.                                                       *)
(***************************************************************************)

VARIABLES
    host,       \* how the host parses paths: "posix" or "windows"
    value,      \* SubjectState.value
    budget,     \* SubjectState.budget
    history,    \* SubjectState.history
    fs,         \* the files on the host: location -> text
    snap,       \* the SubjectState last returned by snapshot(), or None
    call,       \* the last call: its name and arguments
    result,     \* what the last call returned, and whether it raised
    calls,      \* the number of calls made so far
    pipeline,   \* the calling script (demo.main's --pipeline run, or a scenario):
                \* where it stands, and its locals
    writers     \* the engines of other processes on the workspace, each with
                \* the position and the locals of the call it is in

vars == << host, value, budget, history, fs, snap, call, result, calls, pipeline, writers >>

\* no other process uses the workspace
NoWriters == << >>

\* demo.main has not been run
NoPipeline == [pc |-> "off", run |-> 0]

\* STEP_COST
STEP_COST == 1

\* SubjectState(value, history, budget)
SubjectState(v, h, b) == [value |-> v, history |-> h, budget |-> b]

\* subject.state
State == SubjectState(value, history, budget)

\* the last element of a non-empty sequence
Last(s) == s[Len(s)]

(***************************************************************************)
(* Subject.step                                                            *)
(***************************************************************************)

\* step that charges without looking at the budget
StepOutcomeUnchecked(st, input_value) ==
    SubjectState(
        st.value + input_value,
        Append(st.history,
               [type |-> "STEP", input |-> input_value,
                result |-> st.value + input_value, cost |-> STEP_COST,
                budget_after |-> st.budget - STEP_COST]),
        st.budget - STEP_COST)

\* step that records the value it started from as its result
StepOutcomeStaleResult(st, input_value) ==
    IF st.budget < STEP_COST
    THEN SubjectState(
             st.value,
             Append(st.history,
                    [type |-> "DENY", reason |-> "NO_BUDGET",
                     input |-> input_value, budget |-> st.budget]),
             st.budget)
    ELSE SubjectState(
             st.value + input_value,
             Append(st.history,
                    [type |-> "STEP", input |-> input_value,
                     result |-> st.value, cost |-> STEP_COST,
                     budget_after |-> st.budget - STEP_COST]),
             st.budget - STEP_COST)

\* step that applies the input even when it denies
StepOutcomeDenyApplies(st, input_value) ==
    SubjectState(
        st.value + input_value,
        Append(st.history,
               IF st.budget < STEP_COST
               THEN [type |-> "DENY", reason |-> "NO_BUDGET",
                     input |-> input_value, budget |-> st.budget]
               ELSE [type |-> "STEP", input |-> input_value,
                     result |-> st.value + input_value, cost |-> STEP_COST,
                     budget_after |-> st.budget - STEP_COST]),
        IF st.budget < STEP_COST THEN st.budget ELSE st.budget - STEP_COST)

StepOutcome(st, input_value) ==
    IF st.budget < STEP_COST
    THEN SubjectState(
             st.value,
             Append(st.history,
                    [type |-> "DENY", reason |-> "NO_BUDGET",
                     input |-> input_value, budget |-> st.budget]),
             st.budget)
    ELSE LET new_value == st.value + input_value
             new_budget == st.budget - STEP_COST
         IN  SubjectState(
                 new_value,
                 Append(st.history,
                        [type |-> "STEP", input |-> input_value,
                         result |-> new_value, cost |-> STEP_COST,
                         budget_after |-> new_budget]),
                 new_budget)

(***************************************************************************)
(* Subject.write_artifact.  The outcome is the new state, the new files,   *)
(* and whether the call raised (an OSError of mkdir or write_bytes, which  *)
(* leaves the state as it was).                                            *)
(***************************************************************************)

\* write_artifact once the membrane has let the path through
WriteTarget(st, files, rel_path, content, target_path) ==
    IF WriteRaises(files, target_path)
    THEN [state |-> st, files |-> files, raised |-> TRUE]
    ELSE [state |-> SubjectState(
                        st.value,
                        Append(st.history,
                               [type |-> "ARTIFACT_WRITE", path |-> rel_path,
                                bytes |-> Utf8Len(content)]),
                        st.budget),
          files |-> WriteBytes(files, target_path, content),
          raised |-> FALSE]

WriteArtifactOutcome(h, st, files, rel_path, content) ==
    IF MembraneDenies(rel_path)
    THEN [state |-> SubjectState(
                        st.value,
                        Append(st.history,
                               [type |-> "DENY", reason |-> "MEMBRANE_VIOLATION",
                                path |-> rel_path]),
                        st.budget),
          files |-> files, raised |-> FALSE]
    ELSE WriteTarget(st, files, rel_path, content, WorkspacePath(h, rel_path))

(***************************************************************************)
(* Subject.snapshot and Subject.rollback                                   *)
(***************************************************************************)

SnapshotOutcome(st) == SubjectState(st.value, st.history, st.budget)

\* rollback that restores the value and the history, and leaves no budget
RollbackOutcomeSpent(snapshot_state) ==
    SubjectState(
        snapshot_state.value,
        Append(snapshot_state.history,
               [type |-> "ROLLBACK", to_value |-> snapshot_state.value,
                to_budget |-> snapshot_state.budget]),
        0)

\* rollback that restores the history and the budget, and sets the value
\* to 0
RollbackOutcomeZeroed(snapshot_state) ==
    SubjectState(
        0,
        Append(snapshot_state.history,
               [type |-> "ROLLBACK", to_value |-> snapshot_state.value,
                to_budget |-> snapshot_state.budget]),
        snapshot_state.budget)

\* rollback that leaves no marker
RollbackOutcomeUnmarked(snapshot_state) ==
    SubjectState(snapshot_state.value, snapshot_state.history, snapshot_state.budget)

RollbackOutcome(snapshot_state) ==
    SubjectState(
        snapshot_state.value,
        Append(snapshot_state.history,
               [type |-> "ROLLBACK", to_value |-> snapshot_state.value,
                to_budget |-> snapshot_state.budget]),
        snapshot_state.budget)

(***************************************************************************)
(* Helpers shared by crystallizer, composer and exporter.                  *)
(***************************************************************************)

\* _set_subject_state(subject, history, budget): value is kept
SetSubjectState(st, h, b) == SubjectState(st.value, h, b)

\* _clean_rel_dir
CleanRelDir(rel_dir, workspace_dir) ==
    LET rel_dir_posix == Strip(Replace(rel_dir, "\\", "/"), {"/"})
        workspace_posix == Strip(Replace(workspace_dir, "\\", "/"), {"/"})
    IN  IF workspace_dir = << >> THEN rel_dir_posix
        ELSE IF workspace_posix # << >>
                /\ StartsWith(rel_dir_posix, Append(workspace_posix, "/"))
             THEN Strip(SubSeq(rel_dir_posix, Len(workspace_posix) + 2,
                               Len(rel_dir_posix)), {"/"})
             ELSE IF workspace_posix # << >> /\ rel_dir_posix = workspace_posix
                  THEN << >>
                  ELSE Strip(rel_dir_posix, {"/"})

\* _join_rel for two parts
JoinRel(a, b) ==
    LET ca == Strip(a, {"/", "\\"})
        cb == Strip(b, {"/", "\\"})
    IN  IF ca = << >> THEN cb
        ELSE IF cb = << >> THEN ca
        ELSE ca \o << "/" >> \o cb

\* the decimal digits, as atoms
DigitAtoms == << "0", "1", "2", "3", "4", "5", "6", "7", "8", "9" >>

RECURSIVE Decimal(_)
\* str(n) for n >= 0
Decimal(n) ==
    IF n < 10 THEN << DigitAtoms[n + 1] >>
    ELSE Append(Decimal(n \div 10), DigitAtoms[(n % 10) + 1])

RECURSIVE ZeroPad(_, _)
ZeroPad(digits, width) ==
    IF Len(digits) >= width THEN digits ELSE ZeroPad(<< "0" >> \o digits, width)

\* f"{n:04d}" for n >= 0
Format04d(n) == ZeroPad(Decimal(n), 4)

\* the clock readings _timestamp() can return
Timestamps == {"T1", "T2"}

\* the readings of two successive _timestamp() calls
ClockPairs == {<< "T1", "T1" >>, << "T1", "T2" >>, << "T2", "T2" >>}

(***************************************************************************)
(* crystallizer.crystallize                                                *)
(***************************************************************************)

\* CRYSTAL_COST
CRYSTAL_COST == 1

\* crystallizer.INDEX_VERSION
CRYSTAL_INDEX_VERSION == "0.2"

\* _last_crystal_write_index that finds no CRYSTAL_WRITE event
LastCrystalWriteIndexNone(h) == -1

RECURSIVE LastCrystalWriteIndex(_)
\* _last_crystal_write_index: last_event_index of the most recent
\* CRYSTAL_WRITE event, -1 if there is none
LastCrystalWriteIndex(h) ==
    IF h = << >> THEN -1
    ELSE IF Last(h).type = "CRYSTAL_WRITE" THEN Last(h).last_event_index
         ELSE LastCrystalWriteIndex(SubSeq(h, 1, Len(h) - 1))

\* the keys of a crystal file in ascending order, as sort_keys=True emits
\* them
SortedKeys == << "created_at", "kind", "payload", "signature", "version" >>

\* the key of an item
KeyOf(item) == CHOOSE k \in DOMAIN item : TRUE

\* a dict as Python holds it: its items in the insertion order `keys`
Items(d, keys) == [i \in 1..Len(keys) |-> keys[i] :> d[keys[i]]]

\* the item of a key the dict holds
ItemOf(items, k) == items[CHOOSE i \in 1..Len(items) : KeyOf(items[i]) = k]

\* json.dumps without sort_keys: the items as the dict holds them
DumpAsInserted(items) == [fmt |-> "json", items |-> items]

\* json.dumps(items, sort_keys=True): the items by ascending key
DumpSorted(items) ==
    LET HasKey(k) == \E i \in 1..Len(items) : KeyOf(items[i]) = k
        keys == SelectSeq(SortedKeys, HasKey)
    IN  [fmt |-> "json", items |-> [i \in 1..Len(keys) |-> ItemOf(items, keys[i])]]

\* _signature_for_crystal of a dict given by its items
SignatureForItems(items) == Sha256(DumpSorted(items))

\* a signature that leaves the payload out
SignatureOfKind(crystal) == Sha256(StableJson([kind |-> crystal.kind]))

\* _signature_for_crystal
SignatureForCrystal(crystal) == Sha256(StableJson(crystal))

\* _default_index_payload
DefaultIndexPayload ==
    [version |-> CRYSTAL_INDEX_VERSION, next_index |-> 0,
     last_event_index |-> -1, crystals |-> << >>]

\* _load_index_payload that does not read the file
LoadIndexPayloadDefault(files, index_path) == DefaultIndexPayload

\* crystallizer._load_index_payload: a missing file, a text that is not
\* JSON and missing keys all fall back to the defaults
LoadIndexPayload(files, index_path) ==
    IF ~Exists(files, index_path) THEN DefaultIndexPayload
    ELSE IF JsonDecodeError(files[index_path]) THEN DefaultIndexPayload
    ELSE LET data == JsonLoads(files[index_path]) IN
         [version |-> CRYSTAL_INDEX_VERSION,
          next_index |-> IF "next_index" \in DOMAIN data
                         THEN data.next_index ELSE 0,
          last_event_index |-> IF "last_event_index" \in DOMAIN data
                               THEN data.last_event_index ELSE -1,
          crystals |-> IF "crystals" \in DOMAIN data THEN data.crystals ELSE << >>]

\* a slice that starts one event early
SliceFromBefore(h, from_index) ==
    IF from_index = 0 THEN h ELSE SubSeq(h, from_index, Len(h))

\* history[from_index:] (from_index is 0-based)
SliceFrom(h, from_index) == SubSeq(h, from_index + 1, Len(h))

\* a threshold that also refuses exactly min_new_events events
NotEnoughNewEventsInclusive(new_events, min_new_events) ==
    Len(new_events) <= min_new_events

\* len(new_events) < min_new_events
NotEnoughNewEvents(new_events, min_new_events) == Len(new_events) < min_new_events

\* a crystal body that leaves the CRYSTAL_SKIP events out
CrystalBodySkipless(new_events, from_index) ==
    [version |-> CRYSTAL_INDEX_VERSION,
     kind |-> "event_digest",
     payload |-> [events |-> SelectSeq(new_events, LAMBDA e : e.type # "CRYSTAL_SKIP"),
                  from_index |-> from_index,
                  to_index |-> from_index + Len(new_events) - 1,
                  event_count |-> Len(new_events)]]

\* the crystal body that is signed
CrystalBody(new_events, from_index) ==
    [version |-> CRYSTAL_INDEX_VERSION,
     kind |-> "event_digest",
     payload |-> [events |-> new_events,
                  from_index |-> from_index,
                  to_index |-> from_index + Len(new_events) - 1,
                  event_count |-> Len(new_events)]]

\* known signatures that hold the newest entry only
KnownSignaturesLast(crystals) ==
    IF crystals = << >> THEN {} ELSE {crystals[Len(crystals)].signature}

\* an index whose entries are not looked at
KnownSignaturesNone(crystals) == {}

\* the signatures of the index entries
KnownSignatures(crystals) == {crystals[i].signature : i \in 1..Len(crystals)}

\* a crystal name that counts from 1
CrystalNameFromOne(next_index) ==
    << "crystal_" >> \o Format04d(next_index + 1) \o << ".", "json" >>

\* f"crystal_{next_index:04d}.json"
CrystalName(next_index) == << "crystal_" >> \o Format04d(next_index) \o << ".", "json" >>

\* "index.json"
IndexName == << "index", ".", "json" >>

\* what a call did: the new state, the new files, the returned path (or
\* None) and whether it raised an OSError
Outcome(state, files, ret, raised) ==
    [state |-> state, files |-> files, ret |-> ret, raised |-> raised]

\* crystallize after the index has been written
CrystallizeIndexWritten(st, c, next_index, crystal_rel_path, w2) ==
    IF w2.raised THEN Outcome(w2.state, w2.files, None, TRUE)
    ELSE IF Last(w2.state.history).type = "DENY"
    THEN Outcome(SetSubjectState(st,
                     Append(w2.state.history,
                            [type |-> "CRYSTAL_SKIP", reason |-> "OTHER",
                             detail |-> "MEMBRANE_VIOLATION",
                             signature |-> c.signature, path |-> c.index_rel_path,
                             last_event_index |-> c.last_event_index]),
                     st.budget - CRYSTAL_COST),
                 w2.files, None, FALSE)
    ELSE Outcome(SetSubjectState(st,
                     Append(w2.state.history,
                            [type |-> "CRYSTAL_WRITE", index |-> next_index,
                             path |-> crystal_rel_path, signature |-> c.signature,
                             event_count |-> c.event_count,
                             from_index |-> c.from_index,
                             last_event_index |-> c.to_index]),
                     st.budget - CRYSTAL_COST),
                 w2.files, Some(crystal_rel_path), FALSE)

\* crystallize that reads the index again before it writes it
CrystallizeCrystalWrittenReloaded(h, st, c, index_payload, crystal_rel_path, w1) ==
    LET on_disk == LoadIndexPayload(w1.files, WorkspacePath(h, c.index_rel_path))
        next_index == index_payload.next_index
        entry ==
            [index |-> next_index, path |-> crystal_rel_path,
             signature |-> c.signature, kind |-> "event_digest",
             from_index |-> c.from_index, to_index |-> c.to_index,
             event_count |-> c.event_count, created_at |-> c.t_entry]
        new_index ==
            [version |-> CRYSTAL_INDEX_VERSION, next_index |-> on_disk.next_index + 1,
             last_event_index |-> c.to_index,
             crystals |-> Append(on_disk.crystals, entry)]
    IN  CrystallizeIndexWritten(st, c, next_index, crystal_rel_path,
            WriteArtifactOutcome(h, w1.state, w1.files, c.index_rel_path,
                                 StableJson(new_index)))

\* crystallize that writes the crystal file and leaves the index as it is
CrystallizeCrystalWrittenUnlisted(h, st, c, index_payload, crystal_rel_path, w1) ==
    IF w1.raised THEN Outcome(w1.state, w1.files, None, TRUE)
    ELSE CrystallizeIndexWritten(st, c, index_payload.next_index, crystal_rel_path, w1)

\* crystallize after the crystal file has been written
CrystallizeCrystalWritten(h, st, c, index_payload, crystal_rel_path, w1) ==
    LET next_index == index_payload.next_index
        entry ==
            [index |-> next_index, path |-> crystal_rel_path,
             signature |-> c.signature, kind |-> "event_digest",
             from_index |-> c.from_index, to_index |-> c.to_index,
             event_count |-> c.event_count, created_at |-> c.t_entry]
        new_index ==
            [version |-> CRYSTAL_INDEX_VERSION, next_index |-> next_index + 1,
             last_event_index |-> c.to_index,
             crystals |-> Append(index_payload.crystals, entry)]
    IN  IF w1.raised THEN Outcome(w1.state, w1.files, None, TRUE)
        ELSE IF Last(w1.state.history).type = "DENY"
        THEN Outcome(SetSubjectState(st,
                         Append(w1.state.history,
                                [type |-> "CRYSTAL_SKIP", reason |-> "OTHER",
                                 detail |-> "MEMBRANE_VIOLATION",
                                 signature |-> c.signature,
                                 path |-> crystal_rel_path,
                                 last_event_index |-> c.last_event_index]),
                         st.budget - CRYSTAL_COST),
                     w1.files, None, FALSE)
        ELSE CrystallizeIndexWritten(st, c, next_index, crystal_rel_path,
                 WriteArtifactOutcome(h, w1.state, w1.files, c.index_rel_path,
                                      StableJson(new_index)))

\* the text of the crystal file: the signed body, its signature and the
\* time of writing
CrystalText(c) ==
    StableJson([version |-> c.crystal_body.version,
                kind |-> c.crystal_body.kind,
                payload |-> c.crystal_body.payload,
                signature |-> c.signature,
                created_at |-> c.t_crystal])

\* crystallize that does not charge a duplicate
CrystallizeLoadedFreeDuplicate(h, st, files, c, index_payload, crystal_rel_path) ==
    IF c.signature \in KnownSignatures(index_payload.crystals)
    THEN Outcome(SetSubjectState(st,
                     Append(st.history,
                            [type |-> "CRYSTAL_SKIP", reason |-> "DUPLICATE",
                             signature |-> c.signature,
                             last_event_index |-> c.last_event_index]),
                     st.budget),
                 files, None, FALSE)
    ELSE CrystallizeCrystalWritten(h, st, c, index_payload, crystal_rel_path,
             WriteArtifactOutcome(h, st, files, crystal_rel_path, CrystalText(c)))

\* crystallize once the index is loaded: the path of the new crystal
CrystallizeLoaded(h, st, files, c, index_payload, crystal_rel_path) ==
    IF c.signature \in KnownSignatures(index_payload.crystals)
    THEN Outcome(SetSubjectState(st,
                     Append(st.history,
                            [type |-> "CRYSTAL_SKIP", reason |-> "DUPLICATE",
                             signature |-> c.signature,
                             last_event_index |-> c.last_event_index]),
                     st.budget - CRYSTAL_COST),
                 files, None, FALSE)
    ELSE CrystallizeCrystalWritten(h, st, c, index_payload, crystal_rel_path,
             WriteArtifactOutcome(h, st, files, crystal_rel_path, CrystalText(c)))

\* crystallize that numbers the crystal after the CRYSTAL_WRITE events of
\* the engine's history, not after the index
CrystallizeNewRewound(h, st, files, c, index_path) ==
    IF IsDirectory(files, index_path) THEN Outcome(st, files, None, TRUE)
    ELSE LET n == Cardinality({i \in 1..Len(st.history) :
                                  st.history[i].type = "CRYSTAL_WRITE"}) IN
         CrystallizeLoaded(h, st, files, c,
             [LoadIndexPayload(files, index_path) EXCEPT !.next_index = n],
             JoinRel(c.rel_dir_clean, CrystalName(n)))

\* crystallize with enough new events: reading index_path raises when it
\* names a directory
CrystallizeNew(h, st, files, c, index_path) ==
    IF IsDirectory(files, index_path) THEN Outcome(st, files, None, TRUE)
    ELSE CrystallizeLoaded(h, st, files, c, LoadIndexPayload(files, index_path),
             JoinRel(c.rel_dir_clean,
                     CrystalName(LoadIndexPayload(files, index_path).next_index)))

\* the values crystallize derives from the history before it looks at the
\* index: the slice of new events, the signed body and its signature
CrystalValues(st, rel_dir, t_crystal, t_entry) ==
    LET last_event_index == LastCrystalWriteIndex(st.history)
        from_index == last_event_index + 1
        new_events == SliceFrom(st.history, from_index)
        rel_dir_clean == CleanRelDir(rel_dir, WorkspaceDir)
    IN  [last_event_index |-> last_event_index,
         from_index |-> from_index,
         to_index |-> from_index + Len(new_events) - 1,
         event_count |-> Len(new_events),
         crystal_body |-> CrystalBody(new_events, from_index),
         signature |-> SignatureForCrystal(CrystalBody(new_events, from_index)),
         rel_dir_clean |-> rel_dir_clean,
         index_rel_path |-> JoinRel(rel_dir_clean, IndexName),
         t_crystal |-> t_crystal, t_entry |-> t_entry]

\* The outcome of crystallize.  t_crystal and t_entry are the two clock
\* readings; c collects the values the later steps use.
CrystallizeOutcome(h, st, files, rel_dir, min_new_events, t_crystal, t_entry) ==
    LET last_event_index == LastCrystalWriteIndex(st.history)
        from_index == last_event_index + 1
        new_events == SliceFrom(st.history, from_index)
        rel_dir_clean == CleanRelDir(rel_dir, WorkspaceDir)
    IN  IF st.budget < CRYSTAL_COST
        THEN Outcome(SetSubjectState(st,
                         Append(st.history,
                                [type |-> "CRYSTAL_SKIP", reason |-> "NO_BUDGET",
                                 last_event_index |-> last_event_index]),
                         st.budget),
                     files, None, FALSE)
        ELSE IF NotEnoughNewEvents(new_events, min_new_events)
        THEN Outcome(SetSubjectState(st,
                         Append(st.history,
                                [type |-> "CRYSTAL_SKIP",
                                 reason |-> "NOT_ENOUGH_NEW_EVENTS",
                                 event_count |-> Len(new_events),
                                 min_new_events |-> min_new_events,
                                 last_event_index |-> last_event_index]),
                         st.budget - CRYSTAL_COST),
                     files, None, FALSE)
        ELSE CrystallizeNew(h, st, files,
                 CrystalValues(st, rel_dir, t_crystal, t_entry),
                 WorkspacePath(h, JoinRel(rel_dir_clean, IndexName)))

(***************************************************************************)
(* reader.read_crystal and reader.read_selected_crystal                    *)
(***************************************************************************)

\* Path.exists(): a file or a directory is there
PathExists(files, loc) == Exists(files, loc) \/ IsDirectory(files, loc)

\* reader._normalize_rel_path: None, or the cleaned path
ReaderNormalizeRelPath(rel_path) ==
    LET rel_posix == Strip(Replace(rel_path, "\\", "/"), {"/"}) IN
    IF \/ rel_posix = << >>
       \/ IsAbsolute(rel_posix)
       \/ HasDriveOrRoot(rel_posix)
       \/ HasParentRef(rel_posix)
    THEN None
    ELSE Some(rel_posix)

\* the choice of _resolve_full_path between the literal candidate and the
\* path under "storage"
ResolveFull(files, rel_path, candidate, alt) ==
    IF PathExists(files, candidate) THEN candidate
    ELSE IF StartsWith(rel_path, << "crystals", "/" >>) /\ PathExists(files, alt)
         THEN alt
         ELSE candidate

\* reader._resolve_full_path: the literal path, or the same path under
\* "storage" when the literal one is missing and starts with "crystals/"
ReaderResolveFullPath(h, files, rel_path) ==
    ResolveFull(files, rel_path, WorkspacePath(h, rel_path),
                WorkspacePath(h, << "storage", "/" >> \o rel_path))

\* a dict with key k set to v
WithKey(dict, k, v) == (k :> v) @@ dict

\* the empty string
EmptyString == RawText(<< >>)

\* a JSON value that is not an object: a string, a number or a list
NotADict == [scalar |-> "junk"]

\* isinstance(x, dict) of a JSON value
IsDict(x) == DOMAIN x \cap {"scalar", "none"} = {}

\* isinstance(x, str) of a JSON value: a digest or a text
IsStr(x) == DOMAIN x \cap {"sha256", "fmt"} # {}

\* Python truthiness of an optional string: None and "" are false
Truthy(x) == x # None /\ x # EmptyString

\* a CrystalReadError
ReadError(reason) == [ok |-> FALSE, reason |-> reason]

\* read_crystal that tries the legacy shape first
ReadFileLegacyFirst(files, full_path, expected_signature) ==
    LET data == JsonLoads(files[full_path])
        keys == DOMAIN data
    IN  IF ~PathExists(files, full_path) THEN ReadError("NOT_FOUND")
        ELSE IF ~Exists(files, full_path) THEN ReadError("INVALID")
        ELSE IF JsonDecodeError(files[full_path]) THEN ReadError("INVALID")
        ELSE IF ~IsDict(data) THEN ReadError("INVALID")
        ELSE IF "signature" \in keys /\ "events" \in keys
        THEN [ok |-> TRUE,
              payload |-> [version |-> "legacy", kind |-> "event_digest",
                           payload |-> data, signature |-> data.signature]]
        ELSE IF {"version", "kind", "payload"} \subseteq keys
        THEN IF ~IsDict(data.payload) THEN ReadError("INVALID")
             ELSE [ok |-> TRUE,
                   payload |-> IF "signature" \notin keys /\ Truthy(expected_signature)
                               THEN WithKey(data, "signature", expected_signature)
                               ELSE data]
        ELSE IF "events" \in keys /\ Truthy(expected_signature)
        THEN [ok |-> TRUE,
              payload |-> [version |-> "legacy", kind |-> "event_digest",
                           payload |-> data, signature |-> expected_signature]]
        ELSE ReadError("INVALID")

\* read_crystal once the file is located
ReadFile(files, full_path, expected_signature) ==
    LET data == JsonLoads(files[full_path])
        keys == DOMAIN data
    IN  IF ~PathExists(files, full_path) THEN ReadError("NOT_FOUND")
        ELSE IF ~Exists(files, full_path) THEN ReadError("INVALID")
        ELSE IF JsonDecodeError(files[full_path]) THEN ReadError("INVALID")
        ELSE IF ~IsDict(data) THEN ReadError("INVALID")
        ELSE IF {"version", "kind", "payload"} \subseteq keys
        THEN IF ~IsDict(data.payload) THEN ReadError("INVALID")
             ELSE [ok |-> TRUE,
                   payload |-> IF "signature" \notin keys /\ Truthy(expected_signature)
                               THEN WithKey(data, "signature", expected_signature)
                               ELSE data]
        ELSE IF "signature" \in keys /\ "events" \in keys
        THEN [ok |-> TRUE,
              payload |-> [version |-> "legacy", kind |-> "event_digest",
                           payload |-> data, signature |-> data.signature]]
        ELSE IF "events" \in keys /\ Truthy(expected_signature)
        THEN [ok |-> TRUE,
              payload |-> [version |-> "legacy", kind |-> "event_digest",
                           payload |-> data, signature |-> expected_signature]]
        ELSE ReadError("INVALID")

\* read_crystal that looks the file up whatever the path is
ReadNormalizedLookupOnly(h, files, rel_clean, expected_signature) ==
    IF rel_clean = None THEN ReadError("NOT_FOUND")
    ELSE ReadFile(files, ReaderResolveFullPath(h, files, rel_clean.some),
                  expected_signature)

\* read_crystal once the path is normalised
ReadNormalized(h, files, rel_clean, expected_signature) ==
    IF rel_clean = None THEN ReadError("VIOLATION")
    ELSE ReadFile(files, ReaderResolveFullPath(h, files, rel_clean.some),
                  expected_signature)

\* read_crystal: [ok |-> TRUE, payload |-> ...] or the CrystalReadError
\* [ok |-> FALSE, reason |-> ...]
ReadCrystal(h, files, rel_path, expected_signature) ==
    ReadNormalized(h, files, ReaderNormalizeRelPath(rel_path), expected_signature)

\* dict.get(key), None when the key is missing
Get(dict, key) == IF key \in DOMAIN dict THEN dict[key] ELSE None

\* _set_subject_state that charges the budget
SetSubjectHistoryCharged(st, h) == SubjectState(st.value, h, st.budget - 1)

\* _set_subject_state that leaves the subject as it was
SetSubjectHistoryKept(st, h) == st

\* reader / attention _set_subject_state(subject, history): value and
\* budget are kept
SetSubjectHistory(st, h) == SubjectState(st.value, h, st.budget)

\* read_selected_crystal once read_crystal has answered
ReadSelected(st, selection_path, read) ==
    IF ~read.ok
    THEN [state |-> SetSubjectHistory(st, Append(st.history,
                        [type |-> "CRYSTAL_READ_DENY", reason |-> read.reason,
                         path |-> selection_path])),
          ret |-> None]
    ELSE [state |-> SetSubjectHistory(st, Append(st.history,
                        [type |-> "CRYSTAL_READ", path |-> selection_path,
                         kind |-> read.payload.kind,
                         signature |-> Get(read.payload, "signature")])),
          ret |-> Some(read.payload)]

\* The outcome of read_selected_crystal: the new state and the returned
\* payload (or None).  The empty path stands for a missing selection.
ReadSelectedCrystalOutcome(h, st, files, selection_path, expected_signature) ==
    IF selection_path = << >>
    THEN [state |-> SetSubjectHistory(st, Append(st.history,
                        [type |-> "CRYSTAL_READ_DENY", reason |-> "NOT_FOUND",
                         detail |-> "NO_SELECTION"])),
          ret |-> None]
    ELSE ReadSelected(st, selection_path,
                      ReadCrystal(h, files, selection_path, expected_signature))

(***************************************************************************)
(* attention.select_crystal                                                *)
(***************************************************************************)

\* attention._normalize_rel_path: None, or the cleaned index path
AttentionNormalizeRelPath(rel_path, workspace_dir) ==
    LET stripped == Strip(Replace(rel_path, "\\", "/"), {"/"})
        workspace_posix == Strip(Replace(workspace_dir, "\\", "/"), {"/"})
        rel_posix ==
            IF workspace_dir = << >> \/ workspace_posix = << >> THEN stripped
            ELSE IF StartsWith(stripped, Append(workspace_posix, "/"))
                 THEN SubSeq(stripped, Len(workspace_posix) + 2, Len(stripped))
                 ELSE IF stripped = workspace_posix THEN << >> ELSE stripped
    IN  IF \/ rel_posix = << >>
           \/ IsAbsolute(rel_posix)
           \/ HasDriveOrRoot(rel_posix)
           \/ HasParentRef(rel_posix)
        THEN None
        ELSE Some(rel_posix)

\* attention._load_index_payload followed by payload.get("crystals", [])
AttentionCrystals(files, index_path) ==
    IF ~Exists(files, index_path) THEN << >>
    ELSE IF JsonDecodeError(files[index_path]) THEN << >>
    ELSE LET payload == JsonLoads(files[index_path]) IN
         IF "crystals" \in DOMAIN payload THEN payload.crystals ELSE << >>

\* the positions of the dict entries whose index converts to an integer:
\* an index, where an entry carries one, is an integer
IndexedPositions(entries) ==
    {i \in 1..Len(entries) : IsDict(entries[i]) /\ "index" \in DOMAIN entries[i]}

\* the positions of the dict entries
DictPositions(entries) == {i \in 1..Len(entries) : IsDict(entries[i])}

\* the first position that carries the maximum index
BestPosition(entries, indexed) ==
    CHOOSE i \in indexed :
        /\ \A j \in indexed : entries[j].index <= entries[i].index
        /\ \A j \in indexed : j < i => entries[j].index < entries[i].index

\* _select_latest that takes the first dict entry of the list
SelectLatestOldest(entries) ==
    IF DictPositions(entries) # {}
    THEN entries[CHOOSE i \in DictPositions(entries) :
                     \A j \in DictPositions(entries) : i <= j]
    ELSE None

\* _select_latest that takes the last entry of the list
SelectLatestLast(entries) ==
    IF DictPositions(entries) # {}
    THEN entries[CHOOSE i \in DictPositions(entries) :
                     \A j \in DictPositions(entries) : j <= i]
    ELSE None

\* _select_latest: the first entry that carries the maximum index; when no
\* entry carries an integer index, the last dict entry; None when the list
\* holds no dict
SelectLatest(entries) ==
    IF IndexedPositions(entries) # {}
    THEN entries[BestPosition(entries, IndexedPositions(entries))]
    ELSE IF DictPositions(entries) # {}
    THEN entries[CHOOSE i \in DictPositions(entries) :
                     \A j \in DictPositions(entries) : j <= i]
    ELSE None

\* the signature of a read crystal when it is a string, or None
ReadSignature(read) ==
    IF ~read.ok THEN None
    ELSE IF IsStr(Get(read.payload, "signature")) THEN Get(read.payload, "signature")
    ELSE None

\* _load_crystal_signature that trusts the index
LoadCrystalSignatureNone(h, files, rel_path, expected_signature) == None

\* _load_crystal_signature: the string signature in the crystal file, or
\* None; rel_path is None when the entry carries no path
LoadCrystalSignature(h, files, rel_path, expected_signature) ==
    IF rel_path = None THEN None
    ELSE ReadSignature(ReadCrystal(h, files, rel_path, expected_signature))

\* the skip of select_crystal
SelectSkip(st) ==
    [state |-> SetSubjectHistory(st, Append(st.history,
                   [type |-> "CRYSTAL_SELECT_SKIP", reason |-> "NO_CRYSTALS"])),
     ret |-> None, raised |-> FALSE]

\* the return value of select_crystal: entry.get("path")
ReturnedPath(entry) == IF "path" \in DOMAIN entry THEN Some(entry.path) ELSE None

\* select_crystal once the entry is chosen and its crystal file read
SelectEntry(st, entry, file_signature) ==
    [state |-> SetSubjectHistory(st, Append(st.history,
                   [type |-> "CRYSTAL_SELECT", reason |-> "LATEST",
                    index |-> Get(entry, "index"), path |-> Get(entry, "path"),
                    signature |-> IF Truthy(file_signature)
                                  THEN file_signature
                                  ELSE Get(entry, "signature")])),
     ret |-> ReturnedPath(entry), raised |-> FALSE]

\* the expected signature handed to _load_crystal_signature
ExpectedSignature(entry) ==
    IF IsStr(Get(entry, "signature")) THEN entry.signature ELSE None

\* select_crystal once the entry is chosen
SelectChosen(h, st, files, entry) ==
    IF entry = None THEN SelectSkip(st)
    ELSE SelectEntry(st, entry,
             LoadCrystalSignature(h, files, Get(entry, "path"),
                                  ExpectedSignature(entry)))

\* select_crystal once the index entries are loaded
SelectFrom(h, st, files, crystals, strategy) ==
    IF crystals = << >> THEN SelectSkip(st)
    ELSE IF strategy # "latest" THEN SelectSkip(st)
    ELSE SelectChosen(h, st, files, SelectLatest(crystals))

\* select_crystal once the index is located: reading index_path raises
\* when it names a directory
SelectIndex(h, st, files, index_path, strategy) ==
    IF IsDirectory(files, index_path)
    THEN [state |-> st, ret |-> None, raised |-> TRUE]
    ELSE SelectFrom(h, st, files, AttentionCrystals(files, index_path), strategy)

\* select_crystal once the index path is normalised
SelectNormalized(h, st, files, index_rel, strategy) ==
    IF index_rel = None THEN SelectSkip(st)
    ELSE SelectIndex(h, st, files, WorkspacePath(h, index_rel.some), strategy)

\* The outcome of select_crystal: the new state, the returned path (or
\* None) and whether reading the index raised
SelectCrystalOutcome(h, st, files, rel_index_path, strategy) ==
    SelectNormalized(h, st, files,
                     AttentionNormalizeRelPath(rel_index_path, WorkspaceDir),
                     strategy)

(***************************************************************************)
(* composer.compose_packet                                                 *)
(***************************************************************************)

\* composer.INDEX_VERSION
PACKET_INDEX_VERSION == "0.1"

\* composer._load_index_payload
LoadPacketIndexPayload(files, index_path) ==
    LET default == [version |-> PACKET_INDEX_VERSION, next_index |-> 0,
                    packets |-> << >>]
    IN  IF ~Exists(files, index_path) THEN default
        ELSE IF JsonDecodeError(files[index_path]) THEN default
        ELSE LET data == JsonLoads(files[index_path]) IN
             [version |-> PACKET_INDEX_VERSION,
              next_index |-> IF "next_index" \in DOMAIN data
                             THEN data.next_index ELSE 0,
              packets |-> IF "packets" \in DOMAIN data THEN data.packets ELSE << >>]

\* a packet name that does not count
PacketNameFirst(next_index) == << "packet_" >> \o Format04d(0) \o << ".", "json" >>

\* f"packet_{next_index:04d}.json"
PacketName(next_index) == << "packet_" >> \o Format04d(next_index) \o << ".", "json" >>

\* a tail taken from the front of the history
HistoryTailFromFront(h, tail_n) ==
    IF tail_n > 0
    THEN SubSeq(h, 1, IF Len(h) > tail_n THEN tail_n ELSE Len(h))
    ELSE << >>

\* history[-tail_n:] if tail_n > 0 else []
HistoryTail(h, tail_n) ==
    IF tail_n > 0
    THEN SubSeq(h, IF Len(h) > tail_n THEN Len(h) - tail_n + 1 ELSE 1, Len(h))
    ELSE << >>

\* compose_packet after the index has been written
ComposeIndexWritten(st, c, w2) ==
    IF w2.raised THEN Outcome(w2.state, w2.files, None, TRUE)
    ELSE IF Last(w2.state.history).type = "DENY"
    THEN Outcome(SetSubjectState(st,
                     Append(w2.state.history,
                            [type |-> "PACKET_SKIP", reason |-> "OTHER",
                             detail |-> "MEMBRANE_VIOLATION",
                             path |-> c.index_rel_path]),
                     st.budget - c.cost),
                 w2.files, None, FALSE)
    ELSE Outcome(SetSubjectState(st,
                     Append(w2.state.history,
                            [type |-> "PACKET_WRITE", index |-> c.next_index,
                             path |-> c.packet_rel_path,
                             bytes |-> c.packet_bytes,
                             crystal_signature |-> c.selection.signature]),
                     st.budget - c.cost),
                 w2.files, Some(c.packet_rel_path), FALSE)

\* compose_packet after the packet file has been written
ComposePacketWritten(h, st, c, w1) ==
    LET entry ==
            [index |-> c.next_index, path |-> c.packet_rel_path,
             bytes |-> c.packet_bytes,
             crystal_signature |-> c.selection.signature,
             created_at |-> c.t_entry]
        new_index ==
            [version |-> PACKET_INDEX_VERSION, next_index |-> c.next_index + 1,
             packets |-> Append(c.packets, entry)]
    IN  IF w1.raised THEN Outcome(w1.state, w1.files, None, TRUE)
        ELSE IF Last(w1.state.history).type = "DENY"
        THEN Outcome(SetSubjectState(st,
                         Append(w1.state.history,
                                [type |-> "PACKET_SKIP", reason |-> "OTHER",
                                 detail |-> "MEMBRANE_VIOLATION",
                                 path |-> c.packet_rel_path]),
                         st.budget - c.cost),
                     w1.files, None, FALSE)
        ELSE ComposeIndexWritten(st, c,
                 WriteArtifactOutcome(h, w1.state, w1.files, c.index_rel_path,
                                      StableJson(new_index)))

\* compose_packet once the packet is built
ComposePacketBuilt(h, st, files, c, packet_text) ==
    ComposePacketWritten(h, st, [c EXCEPT !.packet_bytes = Utf8Len(packet_text)],
        WriteArtifactOutcome(h, st, files, c.packet_rel_path, packet_text))

\* the values compose_packet carries on once the index is loaded
PacketValues(c, index_payload, packet_rel_path) ==
    [cost |-> c.cost, selection |-> c.selection, t_entry |-> c.t_entry,
     index_rel_path |-> c.index_rel_path,
     next_index |-> index_payload.next_index,
     packets |-> index_payload.packets,
     packet_rel_path |-> packet_rel_path,
     packet_bytes |-> 0]

\* the text of the packet file
PacketText(st, c, index_payload) ==
    StableJson(
        [index |-> index_payload.next_index, version |-> PACKET_INDEX_VERSION,
         created_at |-> c.t_packet,
         crystal |-> [path |-> c.selection.path,
                      signature |-> c.selection.signature,
                      kind |-> c.crystal.kind],
         history_tail |-> HistoryTail(st.history, c.tail_n),
         intent |-> "Summarize crystal and propose next step"])

\* compose_packet once the index is loaded
ComposeLoaded(h, st, files, c, index_payload, packet_rel_path) ==
    ComposePacketBuilt(h, st, files,
        PacketValues(c, index_payload, packet_rel_path),
        PacketText(st, c, index_payload))

\* compose_packet with a selection and a crystal: reading index_path
\* raises when it names a directory
ComposeNew(h, st, files, c, index_path) ==
    IF IsDirectory(files, index_path) THEN Outcome(st, files, None, TRUE)
    ELSE ComposeLoaded(h, st, files, c, LoadPacketIndexPayload(files, index_path),
             JoinRel(c.rel_dir_clean,
                     PacketName(LoadPacketIndexPayload(files, index_path).next_index)))

\* the arguments of compose_packet and the paths it derives from rel_dir
ComposeValues(selection, crystal, rel_dir, tail_n, cost, t_packet, t_entry) ==
    [cost |-> cost, selection |-> selection, crystal |-> crystal,
     tail_n |-> tail_n, t_packet |-> t_packet, t_entry |-> t_entry,
     rel_dir_clean |-> CleanRelDir(rel_dir, WorkspaceDir),
     index_rel_path |-> JoinRel(CleanRelDir(rel_dir, WorkspaceDir), IndexName)]

\* compose_packet that looks at the selection before the budget
ComposePacketOutcomeSelectionFirst(h, st, files, selection, crystal, rel_dir, tail_n, cost, t_packet, t_entry) ==
    LET rel_dir_clean == CleanRelDir(rel_dir, WorkspaceDir) IN
    IF selection = None
    THEN Outcome(SetSubjectState(st,
                     Append(st.history,
                            [type |-> "PACKET_SKIP", reason |-> "NO_SELECTION"]),
                     st.budget - cost),
                 files, None, FALSE)
    ELSE IF st.budget < cost
    THEN Outcome(SetSubjectState(st,
                     Append(st.history,
                            [type |-> "PACKET_SKIP", reason |-> "NO_BUDGET"]),
                     st.budget),
                 files, None, FALSE)
    ELSE IF crystal = None
    THEN Outcome(SetSubjectState(st,
                     Append(st.history,
                            [type |-> "PACKET_SKIP", reason |-> "NO_CRYSTAL"]),
                     st.budget - cost),
                 files, None, FALSE)
    ELSE ComposeNew(h, st, files,
             ComposeValues(selection, crystal, rel_dir, tail_n, cost, t_packet, t_entry),
             WorkspacePath(h, JoinRel(rel_dir_clean, IndexName)))

\* The outcome of compose_packet.  selection and crystal are None (for a
\* missing or empty argument) or dicts; t_packet and t_entry are the two
\* clock readings; c collects the values the later steps use.
ComposePacketOutcome(h, st, files, selection, crystal, rel_dir, tail_n, cost, t_packet, t_entry) ==
    LET rel_dir_clean == CleanRelDir(rel_dir, WorkspaceDir) IN
    IF st.budget < cost
    THEN Outcome(SetSubjectState(st,
                     Append(st.history,
                            [type |-> "PACKET_SKIP", reason |-> "NO_BUDGET"]),
                     st.budget),
                 files, None, FALSE)
    ELSE IF selection = None
    THEN Outcome(SetSubjectState(st,
                     Append(st.history,
                            [type |-> "PACKET_SKIP", reason |-> "NO_SELECTION"]),
                     st.budget - cost),
                 files, None, FALSE)
    ELSE IF crystal = None
    THEN Outcome(SetSubjectState(st,
                     Append(st.history,
                            [type |-> "PACKET_SKIP", reason |-> "NO_CRYSTAL"]),
                     st.budget - cost),
                 files, None, FALSE)
    ELSE ComposeNew(h, st, files,
             ComposeValues(selection, crystal, rel_dir, tail_n, cost, t_packet, t_entry),
             WorkspacePath(h, JoinRel(rel_dir_clean, IndexName)))

(***************************************************************************)
(* exporter.export_packet_md                                               *)
(***************************************************************************)

\* str.isdigit() for the atoms after "packet_"
IsDigits(s) == s # << >> /\ \A i \in 1..Len(s) : s[i] \in Range(DigitAtoms)

RECURSIVE ParseInt(_)
\* int(s) for a string of digits
ParseInt(s) ==
    IF s = << >> THEN 0
    ELSE 10 * ParseInt(SubSeq(s, 1, Len(s) - 1))
         + (CHOOSE d \in 0..9 : DigitAtoms[d + 1] = Last(s))

\* Path(path).stem on the host: the last component up to its last "."
\* (a leading "." does not start a suffix)
Stem(h, path) ==
    LET parts == IF h = "posix" THEN PosixParts(path) ELSE WindowsParts(path)
        name == IF parts = << >> THEN << >> ELSE Last(parts)
        dots == {i \in 2..Len(name) : name[i] = "."}
        cut == CHOOSE i \in dots : \A j \in dots : j <= i
    IN  IF dots = {} THEN name ELSE SubSeq(name, 1, cut - 1)

\* str.replace("packet_", "")
RemoveAtom(s, a) == SelectSeq(s, LAMBDA c : c # a)

\* int(x) raises TypeError: an index is an integer or null
IntFails(x) == ToString(x) = ToString(None)

\* _packet_index that takes the index as it finds it
PacketIndexUnconverted(h, packet) ==
    IF "index" \in DOMAIN packet THEN Some(packet.index)
    ELSE IF "path" \in DOMAIN packet
         THEN LET name == Stem(h, packet.path)
                  suffix == RemoveAtom(name, "packet_")
              IN  IF StartsWith(name, << "packet_" >>) /\ IsDigits(suffix)
                  THEN Some(ParseInt(suffix))
                  ELSE None
         ELSE None

\* _packet_index: the explicit index when int() accepts it, None when it
\* does not; without an index, the number in a packet_<n> file name of the
\* packet's path, else None
PacketIndex(h, packet) ==
    IF "index" \in DOMAIN packet
    THEN IF IntFails(packet.index) THEN None ELSE Some(packet.index)
    ELSE IF "path" \in DOMAIN packet
         THEN LET name == Stem(h, packet.path)
                  suffix == RemoveAtom(name, "packet_")
              IN  IF StartsWith(name, << "packet_" >>) /\ IsDigits(suffix)
                  THEN Some(ParseInt(suffix))
                  ELSE None
         ELSE None

\* f"packet_{packet_index:04d}.md"
ExportName(packet_index) == << "packet_" >> \o Format04d(packet_index) \o << ".", "md" >>

\* crystal.get(key) of packet.get("crystal", {})
PacketCrystalGet(packet, key) ==
    IF "crystal" \in DOMAIN packet THEN Get(packet.crystal, key) ELSE None

\* whether packet.get("crystal", {}) has the key
PacketCrystalHas(packet, key) ==
    "crystal" \in DOMAIN packet /\ key \in DOMAIN packet.crystal

\* _render_markdown that leaves the crystal's signature out
RenderMarkdownUnsigned(packet, packet_index) ==
    [fmt |-> "md",
     title |-> packet_index,
     created |-> IF "created_at" \in DOMAIN packet
                 THEN Some(packet.created_at) ELSE None,
     crystal_path |-> IF PacketCrystalHas(packet, "path")
                      THEN Some(packet.crystal.path) ELSE None,
     crystal_kind |-> IF PacketCrystalHas(packet, "kind")
                      THEN Some(packet.crystal.kind) ELSE None,
     crystal_signature |-> None,
     intent |-> IF "intent" \in DOMAIN packet THEN Some(packet.intent) ELSE None,
     payload |-> Get(packet, "payload"),
     history_tail |-> IF "history_tail" \in DOMAIN packet
                      THEN packet.history_tail ELSE << >>]

\* _render_markdown: the text is determined by these fields of the packet
RenderMarkdown(packet, packet_index) ==
    [fmt |-> "md",
     title |-> packet_index,
     created |-> IF "created_at" \in DOMAIN packet
                 THEN Some(packet.created_at) ELSE None,
     crystal_path |-> IF PacketCrystalHas(packet, "path")
                      THEN Some(packet.crystal.path) ELSE None,
     crystal_kind |-> IF PacketCrystalHas(packet, "kind")
                      THEN Some(packet.crystal.kind) ELSE None,
     crystal_signature |-> PacketCrystalGet(packet, "signature"),
     intent |-> IF "intent" \in DOMAIN packet THEN Some(packet.intent) ELSE None,
     payload |-> Get(packet, "payload"),
     history_tail |-> IF "history_tail" \in DOMAIN packet
                      THEN packet.history_tail ELSE << >>]

\* export_packet_md that does not charge a denied export
ExportWrittenDenialFree(st, packet, packet_index, export_rel_path, export_bytes, cost, w1) ==
    IF w1.raised THEN Outcome(st, w1.files, None, TRUE)
    ELSE IF Last(w1.state.history).type = "DENY"
    THEN Outcome(SetSubjectState(st,
                     Append(w1.state.history,
                            [type |-> "EXPORT_SKIP", reason |-> "OTHER",
                             detail |-> "MEMBRANE_VIOLATION",
                             path |-> export_rel_path]),
                     st.budget),
                 w1.files, None, FALSE)
    ELSE Outcome(SetSubjectState(st,
                     Append(w1.state.history,
                            [type |-> "EXPORT_WRITE", path |-> export_rel_path,
                             bytes |-> export_bytes,
                             packet_index |-> packet_index,
                             crystal_signature |->
                                 PacketCrystalGet(packet, "signature")]),
                     st.budget - cost),
                 w1.files, Some(export_rel_path), FALSE)

\* export_packet_md after the export file has been written
ExportWritten(st, packet, packet_index, export_rel_path, export_bytes, cost, w1) ==
    IF w1.raised THEN Outcome(st, w1.files, None, TRUE)
    ELSE IF Last(w1.state.history).type = "DENY"
    THEN Outcome(SetSubjectState(st,
                     Append(w1.state.history,
                            [type |-> "EXPORT_SKIP", reason |-> "OTHER",
                             detail |-> "MEMBRANE_VIOLATION",
                             path |-> export_rel_path]),
                     st.budget - cost),
                 w1.files, None, FALSE)
    ELSE Outcome(SetSubjectState(st,
                     Append(w1.state.history,
                            [type |-> "EXPORT_WRITE", path |-> export_rel_path,
                             bytes |-> export_bytes,
                             packet_index |-> packet_index,
                             crystal_signature |->
                                 PacketCrystalGet(packet, "signature")]),
                     st.budget - cost),
                 w1.files, Some(export_rel_path), FALSE)

\* export_packet_md for a packet that has an index
ExportIndexed(h, st, files, packet, packet_index, export_rel_path, markdown, cost) ==
    ExportWritten(st, packet, packet_index, export_rel_path, Utf8Len(markdown), cost,
        WriteArtifactOutcome(h, st, files, export_rel_path, markdown))

\* export_packet_md that looks at the packet before it looks at the budget
ExportPacketMdOutcomePacketFirst(h, st, files, packet, rel_dir, cost) ==
    IF PacketIndex(h, packet) = None
    THEN Outcome(SetSubjectState(st,
                     Append(st.history,
                            [type |-> "EXPORT_SKIP", reason |-> "INVALID_PACKET"]),
                     st.budget - cost),
                 files, None, FALSE)
    ELSE IF st.budget < cost
    THEN Outcome(SetSubjectState(st,
                     Append(st.history,
                            [type |-> "EXPORT_SKIP", reason |-> "NO_BUDGET"]),
                     st.budget),
                 files, None, FALSE)
    ELSE ExportIndexed(h, st, files, packet, PacketIndex(h, packet).some,
             JoinRel(CleanRelDir(rel_dir, WorkspaceDir),
                     ExportName(PacketIndex(h, packet).some)),
             RenderMarkdown(packet, PacketIndex(h, packet).some), cost)

\* The outcome of export_packet_md
ExportPacketMdOutcome(h, st, files, packet, rel_dir, cost) ==
    LET packet_index == PacketIndex(h, packet) IN
    IF st.budget < cost
    THEN Outcome(SetSubjectState(st,
                     Append(st.history,
                            [type |-> "EXPORT_SKIP", reason |-> "NO_BUDGET"]),
                     st.budget),
                 files, None, FALSE)
    ELSE IF packet_index = None
    THEN Outcome(SetSubjectState(st,
                     Append(st.history,
                            [type |-> "EXPORT_SKIP", reason |-> "INVALID_PACKET"]),
                     st.budget - cost),
                 files, None, FALSE)
    ELSE ExportIndexed(h, st, files, packet, packet_index.some,
             JoinRel(CleanRelDir(rel_dir, WorkspaceDir),
                     ExportName(packet_index.some)),
             RenderMarkdown(packet, packet_index.some), cost)

(***************************************************************************)
(* The calls.  Every action is one call of the API; `call` records its     *)
(* name and arguments, `result` what it returned.                          *)
(***************************************************************************)

\* the largest initial_budget
MaxBudget == 2

\* tests' _make_history(count): count STEP events
MakeHistory(count) ==
    [idx \in 1..count |->
        [type |-> "STEP", input |-> idx - 1, result |-> idx - 1,
         cost |-> 1, budget_after |-> 10 - (idx - 1)]]

\* the histories an engine is created with
InitHistories == {MakeHistory(0), MakeHistory(4), MakeHistory(5)}

\* what the last call returned
Returned(ret, raised) == [ret |-> ret, raised |-> raised]

\* the workspace an earlier engine left: it was created with five STEP
\* events and crystallized them into "crystals"
EarlierWorkspace(h) ==
    CrystallizeOutcome(h, SubjectState(0, MakeHistory(5), CRYSTAL_COST), << >>,
                       << "crystals" >>, 5, "T1", "T2").files

\* the workspaces an engine is created on: empty, or left by an earlier
\* engine
InitWorkspaces(h) == {<< >>, EarlierWorkspace(h)}

\* Subject(initial_value=0, history, initial_budget, workspace_dir)
Init ==
    /\ host \in Hosts
    /\ value = 0
    /\ budget \in 0..MaxBudget
    /\ history \in InitHistories
    /\ fs \in InitWorkspaces(host)
    /\ snap = None
    /\ call = [op |-> "init"]
    /\ result = Returned(None, FALSE)
    /\ calls = 0
    /\ pipeline = NoPipeline
    /\ writers = NoWriters

\* subject.state = st
SetState(st) ==
    /\ value' = st.value
    /\ budget' = st.budget
    /\ history' = st.history

\* the engine and the files after a call that did `out`
Apply(c, st, files, ret, raised) ==
    /\ SetState(st)
    /\ fs' = files
    /\ call' = c
    /\ result' = Returned(ret, raised)
    /\ calls' = calls + 1
    /\ UNCHANGED host

\* what a call of the components did
ApplyOutcome(c, out) ==
    Apply(c, out.state, out.files, out.ret, out.raised) /\ UNCHANGED << snap, pipeline, writers >>

\* a new Subject on the workspace the earlier one used
Restart(initial_budget, initial_history) ==
    /\ Apply([op |-> "init"], SubjectState(0, initial_history, initial_budget),
             fs, None, FALSE)
    /\ snap' = None
    /\ UNCHANGED << pipeline, writers >>

Step(input_value) ==
    /\ Apply([op |-> "step", input |-> input_value],
             StepOutcome(State, input_value), fs, None, FALSE)
    /\ UNCHANGED << snap, pipeline, writers >>

\* what write_artifact did
ApplyWrite(c, out) ==
    Apply(c, out.state, out.files, None, out.raised) /\ UNCHANGED << snap, pipeline, writers >>

WriteArtifact(rel_path, content) ==
    ApplyWrite([op |-> "write_artifact", rel_path |-> rel_path, content |-> content],
               WriteArtifactOutcome(host, State, fs, rel_path, content))

Snapshot ==
    /\ Apply([op |-> "snapshot"], State, fs, None, FALSE)
    /\ snap' = SnapshotOutcome(State)
    /\ UNCHANGED << pipeline, writers >>

Rollback ==
    /\ snap # None
    /\ Apply([op |-> "rollback"], RollbackOutcome(snap), fs, None, FALSE)
    /\ UNCHANGED << snap, pipeline, writers >>

Crystallize(rel_dir, min_new_events, clock) ==
    ApplyOutcome([op |-> "crystallize", rel_dir |-> rel_dir,
                  min_new_events |-> min_new_events],
                 CrystallizeOutcome(host, State, fs, rel_dir, min_new_events,
                                    clock[1], clock[2]))

\* what select_crystal or read_selected_crystal did: no file is written
ApplyRead(c, out, raised) ==
    Apply(c, out.state, fs, out.ret, raised) /\ UNCHANGED << snap, pipeline, writers >>

\* what select_crystal did
ApplySelect(c, out) == ApplyRead(c, out, out.raised)

SelectCrystal(rel_index_path, strategy) ==
    ApplySelect([op |-> "select_crystal", rel_index_path |-> rel_index_path,
                 strategy |-> strategy],
                SelectCrystalOutcome(host, State, fs, rel_index_path, strategy))

ReadSelectedCrystal(selection_path, expected_signature) ==
    ApplyRead([op |-> "read_selected_crystal", selection_path |-> selection_path,
               expected_signature |-> expected_signature],
              ReadSelectedCrystalOutcome(host, State, fs, selection_path,
                                         expected_signature),
              FALSE)

ComposePacket(selection, crystal, rel_dir, tail_n, cost, clock) ==
    ApplyOutcome([op |-> "compose_packet", selection |-> selection,
                  crystal |-> crystal, rel_dir |-> rel_dir, tail_n |-> tail_n,
                  cost |-> cost],
                 ComposePacketOutcome(host, State, fs, selection, crystal, rel_dir,
                                      tail_n, cost, clock[1], clock[2]))

ExportPacketMd(packet, rel_dir, cost) ==
    ApplyOutcome([op |-> "export_packet_md", packet |-> packet, rel_dir |-> rel_dir,
                  cost |-> cost],
                 ExportPacketMdOutcome(host, State, fs, packet, rel_dir, cost))

(***************************************************************************)
(* Arguments.                                                              *)
(***************************************************************************)

StepInputs == {1}

\* "x", "../x"
ArtifactPaths == { << "x" >>, << ".", ".", "/", "x" >> }

\* "hello"
ArtifactContents == { RawText(<< "h", "e", "l", "l", "o" >>) }

\* "crystals", "../crystals"
CrystalDirs == { << "crystals" >>, << ".", ".", "/", "crystals" >> }

MinNewEventsArgs == {1, 5}

\* "storage/crystals/index.json", the default of select_crystal
DefaultIndexPath == << "storage", "/", "crystals", "/" >> \o IndexName

Strategies == {"latest", "oldest"}

\* "crystals/crystal_0000.json"
FirstCrystalPath == << "crystals", "/" >> \o CrystalName(0)

\* the CRYSTAL_SELECT events of a history
SelectEvents(h) == {h[i] : i \in {j \in 1..Len(h) : h[j].type = "CRYSTAL_SELECT"}}

\* the path and expected signature handed to read_selected_crystal: no
\* selection, a path outside the workspace, the first crystal's path, or
\* what a CRYSTAL_SELECT event reports
ReadArgs(h) ==
    { [path |-> << >>, signature |-> None],
      [path |-> << ".", ".", "/", "x" >>, signature |-> None],
      [path |-> FirstCrystalPath, signature |-> None] }
    \cup {[path |-> e.path, signature |-> e.signature] : e \in SelectEvents(h)}

\* a selection made up by the caller, as the tests do
LiteralSelection ==
    [path |-> FirstCrystalPath, signature |-> Sha256(RawText(<< "s", "i", "g" >>))]

\* the selection handed to compose_packet: none, a made-up one, or what a
\* CRYSTAL_SELECT event reports
SelectionArgs(h) ==
    {None, LiteralSelection}
    \cup {[path |-> e.path, signature |-> e.signature] : e \in SelectEvents(h)}

\* {"kind": "event_digest"}
LiteralCrystal == [kind |-> "event_digest"]

\* the crystal handed to compose_packet: none, a bare {"kind": ...} dict,
\* or the payload read_selected_crystal has just returned
CrystalArgs(c, res) ==
    {None, LiteralCrystal}
    \cup (IF c.op = "read_selected_crystal" /\ res.ret # None
          THEN {res.ret.some} ELSE {})

\* "packets", "../packets"
PacketDirs == { << "packets" >>, << ".", ".", "/", "packets" >> }

\* "exports", "../exports"
ExportDirs == { << "exports" >>, << ".", ".", "/", "exports" >> }

TailArgs == {2}

Costs == {1, 2}

\* a packet that carries neither an index nor a path
InvalidPacket == [intent |-> "none"]

\* the packet of the exporter's tests
LiteralPacket ==
    [index |-> 0, version |-> PACKET_INDEX_VERSION, created_at |-> "T1",
     crystal |-> [path |-> LiteralSelection.path,
                  signature |-> LiteralSelection.signature,
                  kind |-> "event_digest"],
     history_tail |-> << >>,
     intent |-> "Summarize crystal and propose next step"]

\* the packets handed to export_packet_md: a packet file of the workspace
\* as json.loads returns it, the tests' packet, or a packet without index
PacketArgs(files) ==
    {InvalidPacket, LiteralPacket}
    \cup {JsonLoads(files[f]) :
            f \in {g \in DOMAIN files :
                      /\ ~JsonDecodeError(files[g])
                      /\ "history_tail" \in DOMAIN JsonLoads(files[g])}}

(***************************************************************************)
(* Spec: every operation, on a workspace that starts empty.                *)
(***************************************************************************)

\* the number of calls explored
MaxCalls == 2

Next ==
    \/ calls < MaxCalls /\ \E i \in StepInputs : Step(i)
    \/ calls < MaxCalls /\ \E p \in ArtifactPaths, c \in ArtifactContents :
                               WriteArtifact(p, c)
    \/ calls < MaxCalls /\ Snapshot
    \/ calls < MaxCalls /\ Rollback
    \/ calls < MaxCalls /\ \E d \in CrystalDirs, m \in MinNewEventsArgs :
                               Crystallize(d, m, << "T1", "T2" >>)
    \/ calls < MaxCalls /\ \E s \in Strategies : SelectCrystal(DefaultIndexPath, s)
    \/ calls < MaxCalls /\ \E a \in ReadArgs(history) :
                               ReadSelectedCrystal(a.path, a.signature)
    \/ calls < MaxCalls /\ \E sel \in SelectionArgs(history),
                              c \in CrystalArgs(call, result),
                              d \in PacketDirs, n \in TailArgs, k \in Costs :
                               ComposePacket(sel, c, d, n, k, << "T1", "T2" >>)
    \/ calls < MaxCalls /\ \E pk \in PacketArgs(fs), d \in ExportDirs, k \in Costs :
                               ExportPacketMd(pk, d, k)

Spec == Init /\ [][Next]_vars

(***************************************************************************)
(* SpecCrystal: sessions that step and crystallize.  A later session is a  *)
(* new engine on the workspace the earlier ones wrote.                     *)
(***************************************************************************)

\* the number of calls explored
MaxCrystalCalls == 3

\* "crystals", "storage/crystals", "../crystals"
SessionCrystalDirs ==
    CrystalDirs \cup { << "storage", "/", "crystals" >> }

NextCrystal ==
    \/ calls < MaxCrystalCalls /\ \E i \in StepInputs : Step(i)
    \/ calls < MaxCrystalCalls
       /\ \E d \in SessionCrystalDirs, m \in MinNewEventsArgs, t \in ClockPairs :
              Crystallize(d, m, t)
    \/ calls < MaxCrystalCalls
       /\ \E b \in 1..MaxBudget, h \in InitHistories : Restart(b, h)

\* the first engine of the workspace
InitCrystal == Init /\ fs = << >>

SpecCrystal == InitCrystal /\ [][NextCrystal]_vars

(***************************************************************************)
(* SpecSession: engines that step, crystallize, take a snapshot and roll   *)
(* back to it, one after the other on one workspace.                       *)
(***************************************************************************)

\* the number of calls explored
MaxSessionCalls == 5

NextSession ==
    \/ calls < MaxSessionCalls /\ \E i \in StepInputs : Step(i)
    \/ calls < MaxSessionCalls /\ Snapshot
    \/ calls < MaxSessionCalls /\ Rollback
    \/ calls < MaxSessionCalls
       /\ \E d \in CrystalDirs, m \in MinNewEventsArgs :
              Crystallize(d, m, << "T1", "T2" >>)
    \/ calls < MaxSessionCalls
       /\ \E b \in 1..MaxBudget, h \in InitHistories : Restart(b, h)

SpecSession == InitCrystal /\ [][NextSession]_vars

(***************************************************************************)
(* SpecIndex: one engine on a workspace that starts empty; it steps, takes *)
(* snapshots, rolls back, crystallizes into "crystals" and writes          *)
(* artifacts of its own, into the crystals directory too.                  *)
(***************************************************************************)

\* the number of calls explored
MaxIndexCalls == 3

\* "x", "crystals/index.json", "crystals/crystal_0001.json"
IndexArtifactPaths ==
    { << "x" >>,
      JoinRel(<< "crystals" >>, IndexName),
      JoinRel(<< "crystals" >>, CrystalName(1)) }

NextIndex ==
    \/ calls < MaxIndexCalls /\ \E i \in StepInputs : Step(i)
    \/ calls < MaxIndexCalls /\ Snapshot
    \/ calls < MaxIndexCalls /\ Rollback
    \/ calls < MaxIndexCalls
       /\ \E m \in MinNewEventsArgs : Crystallize(<< "crystals" >>, m, << "T1", "T2" >>)
    \/ calls < MaxIndexCalls
       /\ \E p \in IndexArtifactPaths, c \in ArtifactContents : WriteArtifact(p, c)

SpecIndex == InitCrystal /\ [][NextIndex]_vars

(***************************************************************************)
(* SpecAccount: one engine created with an empty history,                  *)
(* Subject(initial_value, initial_budget), and used with the default costs *)
(* of the stages.                                                          *)
(***************************************************************************)

\* the number of calls explored
MaxAccountCalls == 3

\* initial_value and initial_budget of the engine
InitialValue == 7
InitialBudget == MaxBudget

\* the inputs of step
AccountInputs == {-2, 1}

\* the default cost of compose_packet and export_packet_md
DefaultCost == 1

NextAccount ==
    \/ calls < MaxAccountCalls /\ \E i \in AccountInputs : Step(i)
    \/ calls < MaxAccountCalls /\ \E p \in ArtifactPaths, c \in ArtifactContents :
                                      WriteArtifact(p, c)
    \/ calls < MaxAccountCalls /\ Snapshot
    \/ calls < MaxAccountCalls /\ Rollback
    \/ calls < MaxAccountCalls /\ \E d \in CrystalDirs, m \in MinNewEventsArgs :
                                      Crystallize(d, m, << "T1", "T2" >>)
    \/ calls < MaxAccountCalls /\ SelectCrystal(DefaultIndexPath, "latest")
    \/ calls < MaxAccountCalls /\ ReadSelectedCrystal(FirstCrystalPath, None)
    \/ calls < MaxAccountCalls
       /\ \E sel \in {None, LiteralSelection}, d \in PacketDirs :
              ComposePacket(sel, LiteralCrystal, d, 2, DefaultCost, << "T1", "T2" >>)
    \/ calls < MaxAccountCalls
       /\ \E pk \in {InvalidPacket, LiteralPacket}, d \in ExportDirs :
              ExportPacketMd(pk, d, DefaultCost)

InitAccount ==
    /\ host \in Hosts
    /\ value = InitialValue
    /\ budget = InitialBudget
    /\ history = << >>
    /\ fs = << >>
    /\ snap = None
    /\ call = [op |-> "init"]
    /\ result = Returned(None, FALSE)
    /\ calls = 0
    /\ pipeline = NoPipeline
    /\ writers = NoWriters

SpecAccount == InitAccount /\ [][NextAccount]_vars

(***************************************************************************)
(* SpecArtifacts: engines that crystallize into "crystals", compose into   *)
(* "packets" and export the stored packets into "exports".                 *)
(***************************************************************************)

\* the number of calls explored
MaxArtifactCalls == 4

\* the packets load_packet and load_latest_packet return: a stored packet
\* as json.loads returns it, without or with the path of its index entry
StoredPackets(h, files) ==
    UNION {{JsonLoads(files[WorkspacePath(h, e.path)]),
            WithKey(JsonLoads(files[WorkspacePath(h, e.path)]), "path", e.path)} :
           e \in Range(LoadPacketIndexPayload(files,
                           WorkspacePath(h, JoinRel(<< "packets" >>, IndexName))).packets)}

NextArtifacts ==
    \/ calls < MaxArtifactCalls /\ \E i \in StepInputs : Step(i)
    \/ calls < MaxArtifactCalls /\ Snapshot
    \/ calls < MaxArtifactCalls /\ Rollback
    \/ calls < MaxArtifactCalls
       /\ \E m \in MinNewEventsArgs : Crystallize(<< "crystals" >>, m, << "T1", "T2" >>)
    \/ calls < MaxArtifactCalls
       /\ \E t \in ClockPairs :
              ComposePacket(LiteralSelection, LiteralCrystal, << "packets" >>, 2, 1, t)
    \/ calls < MaxArtifactCalls
       /\ \E pk \in StoredPackets(host, fs) : ExportPacketMd(pk, << "exports" >>, 1)
    \/ calls < MaxArtifactCalls
       /\ \E h \in InitHistories : Restart(MaxBudget + 1, h)

\* an engine with budget for a crystal, a packet and an export
InitArtifacts ==
    /\ host \in Hosts
    /\ value = 0
    /\ budget = MaxBudget + 1
    /\ history \in InitHistories
    /\ fs = << >>
    /\ snap = None
    /\ call = [op |-> "init"]
    /\ result = Returned(None, FALSE)
    /\ calls = 0
    /\ pipeline = NoPipeline
    /\ writers = NoWriters

SpecArtifacts == InitArtifacts /\ [][NextArtifacts]_vars

(***************************************************************************)
(* SpecLedger: every operation of the engine and its components, deep      *)
(* enough for a rollback over a charged operation.                         *)
(***************************************************************************)

\* the number of calls explored
MaxLedgerCalls == 3

NextLedger ==
    \/ calls < MaxLedgerCalls /\ \E i \in StepInputs : Step(i)
    \/ calls < MaxLedgerCalls /\ \E c \in ArtifactContents : WriteArtifact(<< "x" >>, c)
    \/ calls < MaxLedgerCalls /\ Snapshot
    \/ calls < MaxLedgerCalls /\ Rollback
    \/ calls < MaxLedgerCalls /\ Crystallize(<< "crystals" >>, 1, << "T1", "T2" >>)
    \/ calls < MaxLedgerCalls /\ SelectCrystal(DefaultIndexPath, "latest")
    \/ calls < MaxLedgerCalls /\ \E a \in ReadArgs(history) :
                                     ReadSelectedCrystal(a.path, a.signature)
    \/ calls < MaxLedgerCalls
       /\ ComposePacket(LiteralSelection, LiteralCrystal, << "packets" >>, 2, 1,
                        << "T1", "T2" >>)
    \/ calls < MaxLedgerCalls
       /\ \E k \in Costs : ExportPacketMd(LiteralPacket, << "exports" >>, k)

SpecLedger == Init /\ [][NextLedger]_vars

(***************************************************************************)
(* SpecAttention: select_crystal and read_selected_crystal on workspaces   *)
(* whose index and crystal file were written by crystallize, by an older   *)
(* version or by hand.                                                     *)
(***************************************************************************)

\* the number of calls explored
MaxAttentionCalls == 2

\* two digests
SigE == Sha256(RawText(<< "e" >>))
SigF == Sha256(RawText(<< "f" >>))

\* "crystals/a.json", "crystals/b.json"
PathA == << "crystals", "/", "a", ".", "json" >>
PathB == << "crystals", "/", "b", ".", "json" >>

\* the crystal lists of an index: by descending index, with a tie, without
\* any index, with an entry that is no dict, with no dict at all, with an
\* entry that carries no signature, and the empty list
EntryLists ==
    { << [index |-> 1, path |-> PathA, signature |-> SigE],
         [index |-> 0, path |-> PathB, signature |-> SigE] >>,
      << [index |-> 1, path |-> PathA, signature |-> SigE],
         [index |-> 1, path |-> PathB, signature |-> SigE] >>,
      << [path |-> PathB, signature |-> SigE],
         [path |-> PathA, signature |-> SigE], NotADict >>,
      << NotADict >>,
      << [index |-> 0, path |-> PathA] >>,
      << >> }

\* a crystal file's payload
DigestPayload == [events |-> << >>, from_index |-> 0, to_index |-> -1, event_count |-> 0]

\* the texts of "crystals/a.json": a crystal signed with SigF, with "", with
\* null, without signature, a legacy digest, a crystal whose payload is no
\* dict, a JSON text that is no dict, a dict that is no crystal, and a text
\* that is not JSON; a digest without signature; a crystal that also
\* carries events and a signature at top level, with a dict payload and
\* with a payload that is no dict
CrystalTexts ==
    { StableJson([version |-> CRYSTAL_INDEX_VERSION, kind |-> "event_digest",
                  payload |-> DigestPayload, signature |-> SigF]),
      StableJson([version |-> CRYSTAL_INDEX_VERSION, kind |-> "event_digest",
                  payload |-> DigestPayload, signature |-> EmptyString]),
      StableJson([version |-> CRYSTAL_INDEX_VERSION, kind |-> "event_digest",
                  payload |-> DigestPayload, signature |-> None]),
      StableJson([version |-> CRYSTAL_INDEX_VERSION, kind |-> "event_digest",
                  payload |-> DigestPayload]),
      StableJson([events |-> << >>, signature |-> SigF]),
      StableJson([version |-> CRYSTAL_INDEX_VERSION, kind |-> "event_digest",
                  payload |-> NotADict]),
      StableJson(NotADict),
      StableJson([kind |-> "event_digest"]),
      StableJson([events |-> << >>]),
      StableJson([version |-> CRYSTAL_INDEX_VERSION, kind |-> "event_digest",
                  payload |-> DigestPayload, signature |-> SigF, events |-> << >>]),
      StableJson([version |-> CRYSTAL_INDEX_VERSION, kind |-> "event_digest",
                  payload |-> NotADict, signature |-> SigF, events |-> << >>]),
      RawText(<< "h", "e", "l", "l", "o" >>) }

\* "crystals/index.json" and "crystals/a.json" in the workspace
IndexAt(h) == WorkspacePath(h, JoinRel(<< "crystals" >>, IndexName))
CrystalAt(h) == WorkspacePath(h, PathA)

\* the workspaces select_crystal and read_selected_crystal are called on
AttentionWorkspaces(h) ==
    {<< >>, EarlierWorkspace(h), IndexAt(h) :> RawText(<< "h", "e", "l", "l", "o" >>)}
    \cup {IndexAt(h) :> StableJson([crystals |-> entries]) : entries \in EntryLists}
    \cup {(IndexAt(h) :> StableJson([crystals |-> entries])) @@ (CrystalAt(h) :> text) :
            entries \in EntryLists, text \in CrystalTexts}

\* "storage/crystals/index.json", "../crystals/index.json"
IndexPathArgs == {DefaultIndexPath, << ".", ".", "/" >> \o JoinRel(<< "crystals" >>, IndexName)}

\* the selections handed to read_selected_crystal: none, a path out of the
\* workspace, the two crystal paths, and what a CRYSTAL_SELECT event reports
AttentionReadArgs(h) ==
    {[path |-> q, signature |-> g] :
        q \in {<< >>, << ".", ".", "/", "x" >>, PathA, PathB},
        g \in {None, EmptyString, SigE}}
    \cup {[path |-> e.path, signature |-> e.signature] : e \in SelectEvents(h)}

NextAttention ==
    \/ calls < MaxAttentionCalls /\ \E i \in StepInputs : Step(i)
    \/ calls < MaxAttentionCalls /\ \E q \in IndexPathArgs, g \in Strategies :
                                        SelectCrystal(q, g)
    \/ calls < MaxAttentionCalls /\ \E a \in AttentionReadArgs(history) :
                                        ReadSelectedCrystal(a.path, a.signature)

InitAttention ==
    /\ host \in Hosts
    /\ value = 0
    /\ budget = MaxBudget
    /\ history = MakeHistory(0)
    /\ fs \in AttentionWorkspaces(host)
    /\ snap = None
    /\ call = [op |-> "init"]
    /\ result = Returned(None, FALSE)
    /\ calls = 0
    /\ pipeline = NoPipeline
    /\ writers = NoWriters

SpecAttention == InitAttention /\ [][NextAttention]_vars

(***************************************************************************)
(* SpecPacket: compose_packet with every tail size and export_packet_md    *)
(* with every packet shape.                                                *)
(***************************************************************************)

\* the number of calls explored
MaxPacketCalls == 2

\* tail_n: negative, zero, shorter and longer than the history
TailSizes == {-1, 0, 2, 7}

\* "packets/packet_0003.json", "packets/packet_.json", "packets/notes.json"
PacketPaths ==
    { JoinRel(<< "packets" >>, PacketName(3)),
      << "packets", "/", "packet_", ".", "json" >>,
      << "packets", "/", "notes", ".", "json" >> }

\* the packets handed to export_packet_md: a stored packet as load_packet
\* and load_latest_packet return it, the tests' packet, a packet without
\* index and path, packets that carry a path only, and a packet whose
\* index is null
PacketShapes(h, files) ==
    StoredPackets(h, files)
    \cup {InvalidPacket, LiteralPacket}
    \cup {[path |-> q, crystal |-> LiteralPacket.crystal] : q \in PacketPaths}
    \cup {[index |-> None, path |-> JoinRel(<< "packets" >>, PacketName(3))]}

NextPacket ==
    \/ calls < MaxPacketCalls /\ \E i \in StepInputs : Step(i)
    \/ calls < MaxPacketCalls
       /\ \E n \in TailSizes, k \in Costs :
              ComposePacket(LiteralSelection, LiteralCrystal, << "packets" >>, n, k,
                            << "T1", "T2" >>)
    \/ calls < MaxPacketCalls
       /\ \E pk \in PacketShapes(host, fs), k \in Costs :
              ExportPacketMd(pk, << "exports" >>, k)

SpecPacket == InitCrystal /\ [][NextPacket]_vars

(***************************************************************************)
(* SpecPipeline: demo.main run with --pipeline, once or several times on   *)
(* one workspace that starts empty.  Every run creates its engine, runs    *)
(* the stages crystallize (with --pipeline-crystal), select, read,         *)
(* compose, export, each one only while pipeline_reason is None, and       *)
(* prints its PIPELINE line.                                               *)
(***************************************************************************)

\* the runs of demo.main on the workspace
MaxPipelineRuns == 2

\* --budget
PipelineBudgets == 0..(MaxBudget + 1)

\* the history of the engine the stages are run on: a new engine, or one
\* that has taken two steps
PipelineHistories == {MakeHistory(0), MakeHistory(2)}

\* the default rel_dir of crystallize, compose_packet and export_packet_md
DefaultCrystalDir == << "storage", "/", "crystals" >>
DefaultPacketDir == << "storage", "/", "packets" >>
DefaultExportDir == << "storage", "/", "exports" >>

\* exporter._resolve_full_path: the literal path, or the same path under
\* "storage" when the literal one is missing and starts with "packets/"
ExporterResolveFullPath(h, files, rel_path) ==
    LET candidate == WorkspacePath(h, rel_path)
        alt == WorkspacePath(h, << "storage", "/" >> \o rel_path)
    IN  IF Exists(files, candidate) THEN candidate
        ELSE IF StartsWith(rel_path, << "packets", "/" >>) /\ Exists(files, alt)
             THEN alt
             ELSE candidate

\* exporter.load_packet: the dict stored at rel_path, or None
LoadPacket(h, files, rel_path) ==
    LET rel_clean == ReaderNormalizeRelPath(rel_path) IN
    IF rel_clean = None THEN None
    ELSE LET full_path == ExporterResolveFullPath(h, files, rel_clean.some) IN
         IF ~Exists(files, full_path) THEN None
         ELSE IF JsonDecodeError(files[full_path]) THEN None
         ELSE IF IsDict(JsonLoads(files[full_path]))
              THEN Some(JsonLoads(files[full_path]))
              ELSE None

\* _last_skip_reason that reports the fallback
LastSkipReasonFallback(h, event_types, fallback) == fallback

\* _last_skip_reason
LastSkipReason(h, event_types, fallback) ==
    IF h # << >> /\ Last(h).type \in event_types
    THEN IF "reason" \in DOMAIN Last(h) THEN Last(h).reason ELSE fallback
    ELSE fallback

\* main's locals when the stages begin
PipelineLocals(pipeline_crystal, select_strategy, tail_n) ==
    [pc |-> IF pipeline_crystal THEN "crystal" ELSE "select",
     run |-> pipeline.run + 1,
     pipeline_crystal |-> pipeline_crystal,
     select_strategy |-> select_strategy,
     tail_n |-> tail_n,
     pipeline_reason |-> None,
     selected |-> None,
     selection_signature |-> None,
     selection_info |-> None,
     crystal_payload |-> None,
     packet_path |-> None,
     packet_payload |-> None,
     export_path |-> None,
     line |-> None]

\* the stage blocks of main, in the order of the code
StageOrder == << "crystal", "select", "read", "compose", "export", "print" >>

\* the block after the given one
NextStage(pc) ==
    StageOrder[(CHOOSE i \in 1..(Len(StageOrder) - 1) : StageOrder[i] = pc) + 1]

\* main is at the head of a stage block whose condition holds
AtStage(pc) ==
    /\ pipeline.pc = pc
    /\ pipeline.pipeline_reason = None

\* the locals after a stage block: what the block assigned, the reason when
\* the stage returned None, and the next block
AfterStage(assigned, ret, event_types, fallback, h) ==
    assigned @@
    [pc |-> NextStage(pipeline.pc),
     pipeline_reason |-> IF ret = None
                         THEN Some(LastSkipReason(h, event_types, fallback))
                         ELSE None] @@
    pipeline

\* s = Subject(initial_value=0, initial_budget=base_budget, ...) and the
\* options of the run
PipelineMain(base_budget, initial_history, pipeline_crystal, select_strategy, tail_n) ==
    /\ pipeline.pc \in {"off", "done"}
    /\ pipeline.run < MaxPipelineRuns
    /\ Apply([op |-> "init"], SubjectState(0, initial_history, base_budget),
             fs, None, FALSE)
    /\ snap' = None
    /\ pipeline' = PipelineLocals(pipeline_crystal, select_strategy, tail_n)
    /\ UNCHANGED writers

\* the engine, the files and main's locals after a stage's call
StageDone(c, st, files, ret, raised, assigned, event_types, fallback) ==
    /\ Apply(c, st, files, ret, raised)
    /\ pipeline' = AfterStage(assigned, ret, event_types, fallback, st.history)
    /\ UNCHANGED << snap, writers >>

\* s.state.history.append({"type": "BOOT"})
Booted == SubjectState(value, Append(history, [type |-> "BOOT"]), budget)

\* after rel_path = crystallize(s, min_new_events=1)
CrystalDone(out) ==
    StageDone([op |-> "crystallize", rel_dir |-> DefaultCrystalDir,
               min_new_events |-> 1],
              out.state, out.files, out.ret, out.raised,
              << >>, {"CRYSTAL_SKIP"}, "OTHER")

\* s.state.history.append({"type": "BOOT"}); crystallize(s, min_new_events=1)
PipelineCrystal(clock) ==
    /\ AtStage("crystal")
    /\ CrystalDone(CrystallizeOutcome(host, Booted, fs, DefaultCrystalDir, 1,
                                      clock[1], clock[2]))

\* selection_signature and selection_info, read off the last event
SelectAssigned(ret, last) ==
    IF ret = None THEN [selected |-> None]
    ELSE [selected |-> ret,
          selection_signature |-> Get(last, "signature"),
          selection_info |-> [path |-> Get(last, "path"),
                              signature |-> Get(last, "signature")]]

\* after selected = select_crystal(...)
SelectDone(out) ==
    StageDone([op |-> "select_crystal", rel_index_path |-> DefaultIndexPath,
               strategy |-> pipeline.select_strategy],
              out.state, fs, out.ret, out.raised,
              SelectAssigned(out.ret, Last(out.state.history)),
              {"CRYSTAL_SELECT_SKIP"}, "NO_CRYSTALS")

\* selected = select_crystal(s, strategy=args.select_strategy)
PipelineSelect ==
    /\ AtStage("select")
    /\ SelectDone(SelectCrystalOutcome(host, State, fs, DefaultIndexPath,
                                       pipeline.select_strategy))

\* after crystal_payload = read_selected_crystal(...)
ReadDone(out) ==
    StageDone([op |-> "read_selected_crystal",
               selection_path |-> pipeline.selected.some,
               expected_signature |-> pipeline.selection_signature],
              out.state, fs, out.ret, FALSE,
              [crystal_payload |-> out.ret], {"CRYSTAL_READ_DENY"}, "INVALID")

\* crystal_payload = read_selected_crystal(s, selected, selection_signature)
PipelineRead ==
    /\ AtStage("read")
    /\ ReadDone(ReadSelectedCrystalOutcome(host, State, fs, pipeline.selected.some,
                                           pipeline.selection_signature))

\* packet_payload = load_packet(s.workspace_dir, packet_path)
ComposeAssigned(h, files, ret) ==
    IF ret = None THEN [packet_path |-> None]
    ELSE [packet_path |-> ret, packet_payload |-> LoadPacket(h, files, ret.some)]

\* after packet_path = compose_packet(...)
ComposeDone(out) ==
    StageDone([op |-> "compose_packet", selection |-> pipeline.selection_info,
               crystal |-> pipeline.crystal_payload.some,
               rel_dir |-> DefaultPacketDir, tail_n |-> pipeline.tail_n,
               cost |-> 1],
              out.state, out.files, out.ret, out.raised,
              ComposeAssigned(host, out.files, out.ret), {"PACKET_SKIP"}, "OTHER")

\* packet_path = compose_packet(s, selection=selection_info,
\* crystal=crystal_payload, tail_n=args.tail_n), then load_packet
PipelineCompose(clock) ==
    /\ AtStage("compose")
    /\ ComposeDone(ComposePacketOutcome(host, State, fs, pipeline.selection_info,
                                        pipeline.crystal_payload.some,
                                        DefaultPacketDir, pipeline.tail_n, 1,
                                        clock[1], clock[2]))

\* after export_path = export_packet_md(s, packet_payload)
ExportDone(out) ==
    StageDone([op |-> "export_packet_md", packet |-> pipeline.packet_payload.some,
               rel_dir |-> DefaultExportDir, cost |-> 1],
              out.state, out.files, out.ret, out.raised,
              [export_path |-> out.ret], {"EXPORT_SKIP"}, "OTHER")

\* export_path = export_packet_md(s, packet_payload) if packet_payload
\* else None
PipelineExport ==
    /\ AtStage("export")
    /\ IF pipeline.packet_payload = None
       THEN /\ pipeline' = AfterStage([export_path |-> None], None,
                                      {"EXPORT_SKIP"}, "OTHER", history)
            /\ UNCHANGED << host, value, budget, history, fs, snap, call, result, calls, writers >>
       ELSE ExportDone(ExportPacketMdOutcome(host, State, fs,
                                             pipeline.packet_payload.some,
                                             DefaultExportDir, 1))

\* a stage block whose condition `pipeline_reason is None` fails is passed
\* over
PipelinePassOver ==
    /\ pipeline.pc \in {"select", "read", "compose", "export"}
    /\ pipeline.pipeline_reason # None
    /\ pipeline' = [pipeline EXCEPT !.pc = NextStage(pipeline.pc)]
    /\ UNCHANGED << host, value, budget, history, fs, snap, call, result, calls, writers >>

\* print("PIPELINE: OK packet=... export=...") or
\* print("PIPELINE: SKIP (reason)")
PipelinePrint ==
    /\ pipeline.pc = "print"
    /\ pipeline' =
           [pipeline EXCEPT
              !.pc = "done",
              !.line = IF pipeline.pipeline_reason = None
                       THEN Some([status |-> "OK", packet |-> pipeline.packet_path,
                                  export |-> pipeline.export_path])
                       ELSE Some([status |-> "SKIP",
                                  reason |-> pipeline.pipeline_reason.some])]
    /\ UNCHANGED << host, value, budget, history, fs, snap, call, result, calls, writers >>

NextPipeline ==
    \/ \E b \in PipelineBudgets, h \in PipelineHistories, c \in BOOLEAN,
          st \in Strategies, n \in TailArgs :
           PipelineMain(b, h, c, st, n)
    \/ PipelineCrystal(<< "T1", "T2" >>)
    \/ PipelineSelect
    \/ PipelineRead
    \/ PipelineCompose(<< "T1", "T2" >>)
    \/ PipelineExport
    \/ PipelinePassOver
    \/ PipelinePrint

InitPipeline ==
    /\ host \in Hosts
    /\ value = 0
    /\ budget = 0
    /\ history = << >>
    /\ fs = << >>
    /\ snap = None
    /\ call = [op |-> "init"]
    /\ result = Returned(None, FALSE)
    /\ calls = 0
    /\ pipeline = NoPipeline
    /\ writers = NoWriters

SpecPipeline == InitPipeline /\ [][NextPipeline]_vars

(***************************************************************************)
(* SpecRepeat: an engine that takes a snapshot and then calls              *)
(* crystallize(min_new_events = N) over and over with the default          *)
(* directory; a later engine starts from the same state on the workspace   *)
(* the earlier ones left.                                                  *)
(***************************************************************************)

\* the number of calls of one engine
MaxRepeatCalls == 3

\* the histories the engines are created with
RepeatHistories == {MakeHistory(0), MakeHistory(4)}

\* min_new_events
RepeatArgs == {1, 2, 5, 6}

\* crystallize(subject, min_new_events = N), the same N as the call before
RepeatCrystallize(N) ==
    /\ calls < MaxRepeatCalls
    /\ call.op = "crystallize" => call.min_new_events = N
    /\ Crystallize(DefaultCrystalDir, N, << "T1", "T2" >>)

\* a new engine created as the earlier one was, with a snapshot taken
RepeatRestart ==
    /\ call.op = "crystallize"
    /\ SetState(snap)
    /\ call' = [op |-> "init"]
    /\ result' = Returned(None, FALSE)
    /\ calls' = 0
    /\ UNCHANGED << host, fs, snap, pipeline, writers >>

NextRepeat ==
    \/ \E N \in RepeatArgs : RepeatCrystallize(N)
    \/ RepeatRestart

InitRepeat ==
    /\ host \in Hosts
    /\ value = 0
    /\ budget \in 0..MaxBudget
    /\ history \in RepeatHistories
    /\ fs = << >>
    /\ snap = SnapshotOutcome(State)
    /\ call = [op |-> "init"]
    /\ result = Returned(None, FALSE)
    /\ calls = 0
    /\ pipeline = NoPipeline
    /\ writers = NoWriters

SpecRepeat == InitRepeat /\ [][NextRepeat]_vars

(***************************************************************************)
(* SpecDedup: a caller that takes a snapshot, lets the engine work, rolls  *)
(* it back, crystallizes, and when that wrote a crystal rolls back to the  *)
(* same snapshot and crystallizes again with the same arguments.           *)
(***************************************************************************)

\* the engine works while fewer calls than this have been made
MaxDedupCalls == 2

\* the caller at `pc` with its arguments of crystallize
Scenario(pc, rel_dir, min_new_events) ==
    [pc |-> pc, run |-> 0, rel_dir |-> rel_dir, min_new_events |-> min_new_events]

\* the caller moves on to `pc`
ScenarioAt(pc) == pipeline' = [pipeline EXCEPT !.pc = pc]

\* the engine works before and after the snapshot
DedupWork ==
    /\ pipeline.pc \in {"start", "snapshot"}
    /\ calls < MaxDedupCalls
    /\ \/ \E i \in StepInputs : Step(i)
       \/ \E d \in CrystalDirs, m \in MinNewEventsArgs :
              Crystallize(d, m, << "T1", "T2" >>)

\* S = subject.snapshot()
DedupSnapshot ==
    /\ pipeline.pc = "start"
    /\ Apply([op |-> "snapshot"], State, fs, None, FALSE)
    /\ snap' = SnapshotOutcome(State)
    /\ ScenarioAt("snapshot")
    /\ UNCHANGED writers

\* subject.rollback(S), the first and the second time
DedupRollback(from, to) ==
    /\ pipeline.pc = from
    /\ Apply([op |-> "rollback"], RollbackOutcome(snap), fs, None, FALSE)
    /\ ScenarioAt(to)
    /\ UNCHANGED << snap, writers >>

\* what crystallize did, and where it leaves the caller
DedupCrystallized(out, to) ==
    /\ Apply([op |-> "crystallize", rel_dir |-> pipeline.rel_dir,
              min_new_events |-> pipeline.min_new_events],
             out.state, out.files, out.ret, out.raised)
    /\ ScenarioAt(IF out.ret # None THEN to ELSE "done")
    /\ UNCHANGED << snap, writers >>

\* crystallize(subject, rel_dir, min_new_events), the first and the second
\* time
DedupCrystallize(from, to) ==
    /\ pipeline.pc = from
    /\ DedupCrystallized(
           CrystallizeOutcome(host, State, fs, pipeline.rel_dir,
                              pipeline.min_new_events, "T1", "T2"),
           to)

NextDedup ==
    \/ DedupWork
    \/ DedupSnapshot
    \/ DedupRollback("snapshot", "rolled_back")
    \/ DedupCrystallize("rolled_back", "crystallized")
    \/ DedupRollback("crystallized", "rolled_back_again")
    \/ DedupCrystallize("rolled_back_again", "done")

InitDedup ==
    /\ host \in Hosts
    /\ value = 0
    /\ budget \in 0..MaxBudget
    /\ history \in InitHistories
    /\ fs \in InitWorkspaces(host)
    /\ snap = None
    /\ call = [op |-> "init"]
    /\ result = Returned(None, FALSE)
    /\ calls = 0
    /\ \E d \in CrystalDirs, m \in MinNewEventsArgs :
           pipeline = Scenario("start", d, m)
    /\ writers = NoWriters

SpecDedup == InitDedup /\ [][NextDedup]_vars

(***************************************************************************)
(* SpecFrame: the nine operations of SpecLedger and the two loaders of     *)
(* exporter, which take the workspace directory and no engine.             *)
(***************************************************************************)

\* exporter.load_latest_packet: the packet of the latest entry of the
\* packet index, with the path of the entry, or None
LoadLatestPacket(h, files, rel_index_path) ==
    LET index_rel == ReaderNormalizeRelPath(rel_index_path) IN
    IF index_rel = None THEN None
    ELSE LET index_path == WorkspacePath(h, index_rel.some) IN
         IF ~Exists(files, index_path) THEN None
         ELSE IF JsonDecodeError(files[index_path]) THEN None
         ELSE LET payload == JsonLoads(files[index_path]) IN
              IF ~IsDict(payload) THEN None
              ELSE IF "packets" \notin DOMAIN payload THEN None
              ELSE IF payload.packets = << >> THEN None
              ELSE LET entry == SelectLatest(payload.packets) IN
                   IF entry = None THEN None
                   ELSE IF "path" \notin DOMAIN entry THEN None
                   ELSE LET packet == LoadPacket(h, files, entry.path) IN
                        IF packet = None THEN None
                        ELSE IF "index" \notin DOMAIN packet.some /\ "index" \in DOMAIN entry
                             THEN Some(WithKey(WithKey(packet.some, "path", entry.path),
                                               "index", entry.index))
                             ELSE Some(WithKey(packet.some, "path", entry.path))

\* a call of a loader: it is handed the workspace directory, not the engine
ApplyLoad(c, ret) ==
    /\ call' = c
    /\ result' = Returned(ret, FALSE)
    /\ calls' = calls + 1
    /\ UNCHANGED << host, value, budget, history, fs, snap, pipeline, writers >>

\* load_packet(workspace_dir, rel_path)
LoadPacketCall(rel_path) ==
    ApplyLoad([op |-> "load_packet", rel_path |-> rel_path],
              LoadPacket(host, fs, rel_path))

\* load_latest_packet(workspace_dir, rel_index_path)
LoadLatestPacketCall(rel_index_path) ==
    ApplyLoad([op |-> "load_latest_packet", rel_index_path |-> rel_index_path],
              LoadLatestPacket(host, fs, rel_index_path))

\* "packets/packet_0000.json", a path outside the workspace
LoadPaths == {JoinRel(<< "packets" >>, PacketName(0)), << "..", "/", "x" >>}

\* the number of calls explored
MaxFrameCalls == 2

NextFrame ==
    \/ calls < MaxFrameCalls /\ NextLedger
    \/ calls < MaxFrameCalls /\ \E p \in LoadPaths : LoadPacketCall(p)
    \/ calls < MaxFrameCalls /\ LoadLatestPacketCall(JoinRel(<< "packets" >>, IndexName))

SpecFrame == Init /\ [][NextFrame]_vars

(***************************************************************************)
(* SpecRace: two engines in two processes on one workspace.  Each runs     *)
(* crystallize or compose_packet; a call takes three steps, as the code    *)
(* touches the files three times: it reads the index, writes the artifact  *)
(* file, writes the index.  The steps of the two calls interleave freely.  *)
(***************************************************************************)

\* the calls of each engine
MaxRaceCalls == 1

Writers == {1, 2}

\* the readings of each process's clock
WriterClock(w) == IF w = 1 THEN << "T1", "T1" >> ELSE << "T2", "T2" >>

\* the histories of the engines
RaceHistories == {MakeHistory(4), MakeHistory(5)}

RaceOps == {"crystallize", "compose_packet"}

\* index_path: <dir>/index.json on the host
RaceIndexPath(rel_dir) ==
    WorkspacePath(host, JoinRel(CleanRelDir(rel_dir, WorkspaceDir), IndexName))

\* the engine of process w after a call that returned ret
Finished(w, st, ret) ==
    [writers[w] EXCEPT !.pc = "idle", !.calls = @ + 1, !.state = st, !.ret = ret]

\* the call of process w has read the index: it skips, or goes on with
\* what it needs for its two writes
Loaded(w, op, skipped, c, index_payload, path, text) ==
    /\ writers' =
           [writers EXCEPT ![w] =
               IF skipped.ret = None
               THEN Finished(w, skipped.state, None)
               ELSE [pc |-> "loaded", calls |-> writers[w].calls,
                     state |-> writers[w].state, ret |-> None,
                     op |-> op, c |-> c, index_payload |-> index_payload,
                     path |-> path, text |-> text]]
    /\ UNCHANGED << host, value, budget, history, fs, snap, call, result, calls, pipeline >>

\* crystallize up to and including _load_index_payload and the test for a
\* known signature
RaceLoadCrystal(w, rel_dir) ==
    /\ writers[w].pc = "idle"
    /\ writers[w].calls < MaxRaceCalls
    /\ Loaded(w, "crystallize",
              CrystallizeOutcome(host, writers[w].state, fs, rel_dir, 1,
                                 WriterClock(w)[1], WriterClock(w)[2]),
              CrystalValues(writers[w].state, rel_dir,
                            WriterClock(w)[1], WriterClock(w)[2]),
              LoadIndexPayload(fs, RaceIndexPath(rel_dir)),
              JoinRel(CleanRelDir(rel_dir, WorkspaceDir),
                      CrystalName(LoadIndexPayload(fs, RaceIndexPath(rel_dir)).next_index)),
              CrystalText(CrystalValues(writers[w].state, rel_dir,
                                        WriterClock(w)[1], WriterClock(w)[2])))

\* the values of compose_packet once the index is loaded and the packet is
\* built
RacePacketValues(st, c, index_payload, path) ==
    [PacketValues(c, index_payload, path) EXCEPT
        !.packet_bytes = Utf8Len(PacketText(st, c, index_payload))]

\* compose_packet up to and including _load_index_payload and the building
\* of the packet
RaceLoadPacket(w, rel_dir) ==
    /\ writers[w].pc = "idle"
    /\ writers[w].calls < MaxRaceCalls
    /\ Loaded(w, "compose_packet",
              ComposePacketOutcome(host, writers[w].state, fs, LiteralSelection,
                                   LiteralCrystal, rel_dir, 2, 1,
                                   WriterClock(w)[1], WriterClock(w)[2]),
              RacePacketValues(writers[w].state,
                  ComposeValues(LiteralSelection, LiteralCrystal, rel_dir, 2, 1,
                                WriterClock(w)[1], WriterClock(w)[2]),
                  LoadPacketIndexPayload(fs, RaceIndexPath(rel_dir)),
                  JoinRel(CleanRelDir(rel_dir, WorkspaceDir),
                          PacketName(LoadPacketIndexPayload(fs, RaceIndexPath(rel_dir)).next_index))),
              LoadPacketIndexPayload(fs, RaceIndexPath(rel_dir)),
              JoinRel(CleanRelDir(rel_dir, WorkspaceDir),
                      PacketName(LoadPacketIndexPayload(fs, RaceIndexPath(rel_dir)).next_index)),
              PacketText(writers[w].state,
                  ComposeValues(LiteralSelection, LiteralCrystal, rel_dir, 2, 1,
                                WriterClock(w)[1], WriterClock(w)[2]),
                  LoadPacketIndexPayload(fs, RaceIndexPath(rel_dir))))

\* the files and the engine after the write of the artifact file
ArtifactWritten(w, w1) ==
    /\ fs' = w1.files
    /\ writers' = [writers EXCEPT ![w] =
                      [pc |-> "written", mid |-> w1.state] @@ writers[w]]
    /\ UNCHANGED << host, value, budget, history, snap, call, result, calls, pipeline >>

\* subject.write_artifact(crystal_rel_path, ...) or
\* subject.write_artifact(packet_rel_path, ...)
RaceWriteArtifact(w) ==
    /\ writers[w].pc = "loaded"
    /\ ArtifactWritten(w, WriteArtifactOutcome(host, writers[w].state, fs,
                                               writers[w].path, writers[w].text))

\* the files and the engine after the write of the index and the event
IndexWritten(w, out) ==
    /\ fs' = out.files
    /\ writers' = [writers EXCEPT ![w] = Finished(w, out.state, out.ret)]
    /\ UNCHANGED << host, value, budget, history, snap, call, result, calls, pipeline >>

\* the artifact write as the rest of the call sees it
WrittenOn(w, files) == [state |-> writers[w].mid, files |-> files, raised |-> FALSE]

\* subject.write_artifact(index_rel_path, ...) and the CRYSTAL_WRITE or
\* PACKET_WRITE event
RaceWriteIndex(w) ==
    /\ writers[w].pc = "written"
    /\ IF writers[w].op = "crystallize"
       THEN IndexWritten(w, CrystallizeCrystalWritten(host, writers[w].state,
                                writers[w].c, writers[w].index_payload,
                                writers[w].path, WrittenOn(w, fs)))
       ELSE IndexWritten(w, ComposePacketWritten(host, writers[w].state,
                                writers[w].c, WrittenOn(w, fs)))

NextRace ==
    \/ \E w \in Writers : RaceLoadCrystal(w, << "crystals" >>)
    \/ \E w \in Writers : RaceLoadPacket(w, << "packets" >>)
    \/ \E w \in Writers : RaceWriteArtifact(w)
    \/ \E w \in Writers : RaceWriteIndex(w)

InitRace ==
    /\ host \in Hosts
    /\ value = 0
    /\ budget = 0
    /\ history = << >>
    /\ fs = << >>
    /\ snap = None
    /\ call = [op |-> "init"]
    /\ result = Returned(None, FALSE)
    /\ calls = 0
    /\ pipeline = NoPipeline
    /\ writers \in [Writers -> {[pc |-> "idle", calls |-> 0, ret |-> None,
                                 state |-> SubjectState(0, h, b)] :
                                    h \in RaceHistories, b \in 0..MaxBudget}]

SpecRace == InitRace /\ [][NextRace]_vars

(***************************************************************************)
(* SpecTwin: two engines that take steps, each on its own, as the engines  *)
(* s1 and s2 of test_step_deterministic do.                                *)
(***************************************************************************)

\* the steps of each engine
MaxTwinSteps == 2

\* the inputs of step
TwinInputs == {-2, 0, 3}

\* engine w calls step(input_value)
TwinStep(w, input_value) ==
    /\ writers[w].calls < MaxTwinSteps
    /\ writers' =
           [writers EXCEPT ![w] =
               [pc |-> "idle", calls |-> writers[w].calls + 1, ret |-> None,
                state |-> StepOutcome(writers[w].state, input_value),
                before |-> writers[w].state, input |-> input_value]]
    /\ UNCHANGED << host, value, budget, history, fs, snap, call, result, calls, pipeline >>

NextTwin == \E w \in Writers, i \in TwinInputs : TwinStep(w, i)

InitTwin ==
    /\ host = "posix"
    /\ value = 0
    /\ budget = 0
    /\ history = << >>
    /\ fs = << >>
    /\ snap = None
    /\ call = [op |-> "init"]
    /\ result = Returned(None, FALSE)
    /\ calls = 0
    /\ pipeline = NoPipeline
    /\ \E b \in 0..MaxBudget :
           writers = [w \in Writers |->
                         [pc |-> "idle", calls |-> 0, ret |-> None,
                          state |-> SubjectState(0, << >>, b)]]

SpecTwin == InitTwin /\ [][NextTwin]_vars

(***************************************************************************)
(* SpecMembrane: the first call of a session that writes, with every path  *)
(* of up to MaxPathLen atoms as its rel_path or rel_dir.                   *)
(***************************************************************************)

\* the longest path argument, in atoms
MaxPathLen == 4

\* separators, dot, colon and two letters
PathAtoms == {"/", "\\", ".", ":", "C", "x"}

\* every string of up to MaxPathLen atoms
PathStrings == UNION {[1..n -> PathAtoms] : n \in 0..MaxPathLen}

\* an engine with budget left and five events to crystallize
InitMembrane ==
    /\ Init
    /\ fs = << >>
    /\ budget = MaxBudget
    /\ history = MakeHistory(5)

NextMembrane ==
    \/ calls = 0 /\ \E p \in PathStrings, c \in ArtifactContents : WriteArtifact(p, c)
    \/ calls = 0 /\ \E p \in PathStrings : Crystallize(p, 1, << "T1", "T2" >>)
    \/ calls = 0 /\ \E p \in PathStrings :
                        ComposePacket(LiteralSelection, LiteralCrystal, p, 2, 1,
                                      << "T1", "T2" >>)
    \/ calls = 0 /\ \E p \in PathStrings : ExportPacketMd(LiteralPacket, p, 1)
    \/ calls = 0 /\ \E p \in PathStrings : ReadSelectedCrystal(p, None)

SpecMembrane == InitMembrane /\ [][NextMembrane]_vars

(***************************************************************************)
(* Properties of the engine and the membrane.                              *)
(***************************************************************************)

\* C1: in every reachable state of every sequence of calls, the budget is
\* at least 0.
BudgetNonNegative == budget >= 0

\* a charged call has used up the budget
BudgetSpent ==
    /\ budget = 0
    /\ call.op = "crystallize"
    /\ result.ret # None

\* C2: a step called with budget < 1 leaves value and budget as they were
\* and appends exactly one DENY(NO_BUDGET, input, budget) event that
\* records the unchanged budget.
StepDeniesWithoutBudget ==
    [][(call'.op = "step" /\ budget < 1)
        => /\ value' = value
           /\ budget' = budget
           /\ history' = Append(history,
                                [type |-> "DENY", reason |-> "NO_BUDGET",
                                 input |-> call'.input, budget |-> budget])]_vars

\* a step has been denied for lack of budget
StepDenied ==
    /\ call.op = "step"
    /\ budget = 0
    /\ history # << >>
    /\ Last(history).type = "DENY"
    /\ Last(history).reason = "NO_BUDGET"

\* the path starts with a separator: absolute, or a root marker
StartsWithSeparator(p) == p # << >> /\ p[1] \in {"/", "\\"}

\* the path starts with a drive marker such as "C:"
HasDriveMarker(p) == Len(p) >= 2 /\ p[2] = ":" /\ p[1] \in DriveLetters

\* some segment of the path is "..", the segments being separated by "/"
\* (POSIX) or by "/" and "\\" (Windows)
HasDotDotSegment(p) ==
    \/ ParentRef \in Range(SplitOn(p, {"/"}))
    \/ ParentRef \in Range(SplitOn(p, {"/", "\\"}))

\* the paths write_artifact is to deny
UnsafePath(p) == StartsWithSeparator(p) \/ HasDriveMarker(p) \/ HasDotDotSegment(p)

\* C3: write_artifact on a path that is absolute, carries a drive or root
\* marker or has a ".." segment appends exactly one
\* DENY(MEMBRANE_VIOLATION, path) event, changes no file, and leaves value
\* and budget as they were.
MembraneDeniesUnsafePaths ==
    [][(call'.op = "write_artifact" /\ UnsafePath(call'.rel_path))
        => /\ history' = Append(history,
                                [type |-> "DENY", reason |-> "MEMBRANE_VIOLATION",
                                 path |-> call'.rel_path])
           /\ fs' = fs
           /\ ~result'.raised
           /\ value' = value
           /\ budget' = budget]_vars

\* "C:/x" has been denied
DriveRootedPathDenied ==
    /\ call.op = "write_artifact"
    /\ call.rel_path = << "C", ":", "/", "x" >>
    /\ Last(history) = [type |-> "DENY", reason |-> "MEMBRANE_VIOLATION",
                        path |-> << "C", ":", "/", "x" >>]
    /\ fs = << >>

\* the events that record a written path
WriteEventTypes == {"ARTIFACT_WRITE", "CRYSTAL_WRITE", "PACKET_WRITE", "EXPORT_WRITE"}

\* the recorded relative path names a place inside the workspace root
ResolvesInside(path) == InsideWorkspace(WorkspacePath(host, path))

\* the entries of a file that is an index (of crystals or of packets)
IndexEntries(text) ==
    IF JsonDecodeError(text) THEN << >>
    ELSE IF "crystals" \in DOMAIN JsonLoads(text) THEN JsonLoads(text).crystals
    ELSE IF "packets" \in DOMAIN JsonLoads(text) THEN JsonLoads(text).packets
    ELSE << >>

\* C4: whatever rel_path or rel_dir the writing calls are given, every file
\* lies inside the workspace root, and every path recorded in a write event
\* or in an index entry resolves inside the workspace root.
PathsConfined ==
    /\ \A f \in DOMAIN fs : InsideWorkspace(f)
    /\ \A i \in 1..Len(history) :
           history[i].type \in WriteEventTypes => ResolvesInside(history[i].path)
    /\ \A f \in DOMAIN fs :
           \A i \in 1..Len(IndexEntries(fs[f])) :
               ResolvesInside(IndexEntries(fs[f])[i].path)

\* a crystal has been written under a directory given with a backslash
BackslashDirWritten ==
    /\ call.op = "crystallize"
    /\ "\\" \in Range(call.rel_dir)
    /\ result.ret # None
    /\ Cardinality(DOMAIN fs) = 2

(***************************************************************************)
(* Properties of crystallize.                                              *)
(***************************************************************************)

\* from_index: the position after the last event a crystal covers
FromIndex(h) == LastCrystalWriteIndex(h) + 1

\* the new-event slice history[from_index:]
NewEvents(h) == SliceFrom(h, FromIndex(h))

\* the signature of the crystal a call on history h would build
CandidateSignature(h) == SignatureForCrystal(CrystalBody(NewEvents(h), FromIndex(h)))

\* the directory crystallize writes to
TargetDir(rel_dir) == CleanRelDir(rel_dir, WorkspaceDir)

\* <dir>/index.json as the crystallizer reads it
IndexOf(files, rel_dir) ==
    LoadIndexPayload(files,
        WorkspacePath(host, TargetDir(rel_dir) \o << "/" >> \o IndexName))

\* some entry of the index of rel_dir carries the signature
Indexed(files, rel_dir, signature) ==
    \E i \in 1..Len(IndexOf(files, rel_dir).crystals) :
        IndexOf(files, rel_dir).crystals[i].signature = signature

\* the target directory passes the membrane
DirPasses(rel_dir) == ~MembraneDenies(TargetDir(rel_dir))

\* <dir>/crystal_<n as 4 digits>.json
CrystalPath(rel_dir, n) ==
    TargetDir(rel_dir) \o << "/", "crystal_" >> \o Format04d(n) \o << ".", "json" >>

\* the last event of h is a CRYSTAL_SKIP with the reason
SkippedFor(h, reason) ==
    /\ h # << >>
    /\ Last(h).type = "CRYSTAL_SKIP"
    /\ Last(h).reason = reason

\* C5: a crystallize call with budget >= 1, at least min_new_events new
\* events, a signature the index does not hold and a directory that passes
\* the membrane writes <dir>/crystal_<next_index as 4 digits>.json and
\* <dir>/index.json, sets the index's next_index to the old value + 1 and
\* its last_event_index to (history length at call) - 1, appends
\* CRYSTAL_WRITE(index, path, signature, event_count, from_index,
\* last_event_index = to_index) as the last event, takes exactly 1 from the
\* budget and returns the crystal's relative path.
CrystallizeSucceeds ==
    [][(/\ call'.op = "crystallize"
        /\ budget >= 1
        /\ Len(NewEvents(history)) >= call'.min_new_events
        /\ ~Indexed(fs, call'.rel_dir, CandidateSignature(history))
        /\ DirPasses(call'.rel_dir))
        => /\ result' = Returned(Some(CrystalPath(call'.rel_dir,
                                     IndexOf(fs, call'.rel_dir).next_index)), FALSE)
           /\ Exists(fs', WorkspacePath(host, result'.ret.some))
           /\ JsonLoads(fs'[WorkspacePath(host, result'.ret.some)]).signature
                  = CandidateSignature(history)
           /\ Exists(fs', WorkspacePath(host,
                  TargetDir(call'.rel_dir) \o << "/" >> \o IndexName))
           /\ IndexOf(fs', call'.rel_dir).next_index
                  = IndexOf(fs, call'.rel_dir).next_index + 1
           /\ IndexOf(fs', call'.rel_dir).last_event_index = Len(history) - 1
           /\ Len(history') = Len(history) + 3
           /\ Last(history')
                  = [type |-> "CRYSTAL_WRITE",
                     index |-> IndexOf(fs, call'.rel_dir).next_index,
                     path |-> result'.ret.some,
                     signature |-> CandidateSignature(history),
                     event_count |-> Len(NewEvents(history)),
                     from_index |-> FromIndex(history),
                     last_event_index |-> Len(history) - 1]
           /\ budget' = budget - 1]_vars

\* budget 1, five STEP events, min_new_events 5 and an empty workspace have
\* given crystals/crystal_0000.json, next_index 1, last_event_index 4 and
\* budget 0
FirstCrystalWritten ==
    /\ calls = 1
    /\ call.op = "crystallize"
    /\ call.min_new_events = 5
    /\ Len(history) = 8
    /\ SubSeq(history, 1, 5) = MakeHistory(5)
    /\ result.ret = Some(<< "crystals", "/", "crystal_", "0", "0", "0", "0", ".", "json" >>)
    /\ IndexOf(fs, << "crystals" >>).next_index = 1
    /\ IndexOf(fs, << "crystals" >>).last_event_index = 4
    /\ Cardinality(DOMAIN fs) = 2
    /\ budget = 0

ChargedOps == {"crystallize", "compose_packet", "export_packet_md"}

\* the cost of a call: CRYSTAL_COST, or the cost argument
CostOf(c) == IF c.op = "crystallize" THEN CRYSTAL_COST ELSE c.cost

\* the skip event type of an operation
SkipTypeOf(op) ==
    IF op = "crystallize" THEN "CRYSTAL_SKIP"
    ELSE IF op = "compose_packet" THEN "PACKET_SKIP"
    ELSE "EXPORT_SKIP"

\* C7: crystallize, compose_packet and export_packet_md called with a
\* budget below the cost append exactly one skip event of their own type
\* with reason NO_BUDGET, return no path, write no file and leave the
\* budget as it was, whatever else would have made the call skip.
NoBudgetSkipsFirst ==
    [][(call'.op \in ChargedOps /\ budget < CostOf(call'))
        => /\ Len(history') = Len(history) + 1
           /\ SubSeq(history', 1, Len(history)) = history
           /\ Last(history').type = SkipTypeOf(call'.op)
           /\ Last(history').reason = "NO_BUDGET"
           /\ result' = Returned(None, FALSE)
           /\ fs' = fs
           /\ budget' = budget
           /\ value' = value]_vars

\* crystallize was skipped for NO_BUDGET on a slice whose signature the
\* index already holds
DuplicateSkippedForNoBudget ==
    /\ call.op = "crystallize"
    /\ budget = 0
    /\ SkippedFor(history, "NO_BUDGET")
    /\ Len(history) - 1 >= call.min_new_events
    /\ Indexed(fs, call.rel_dir,
               CandidateSignature(SubSeq(history, 1, Len(history) - 1)))

\* C8: when the signature of the candidate crystal is already among the
\* index's entries, crystallize appends CRYSTAL_SKIP(DUPLICATE, signature,
\* last_event_index), returns no path, takes 1 from the budget and leaves
\* every file, the index among them, as it was.
DuplicateSkips ==
    [][(/\ call'.op = "crystallize"
        /\ budget >= 1
        /\ Len(NewEvents(history)) >= call'.min_new_events
        /\ Indexed(fs, call'.rel_dir, CandidateSignature(history)))
        => /\ history' = Append(history,
                                [type |-> "CRYSTAL_SKIP", reason |-> "DUPLICATE",
                                 signature |-> CandidateSignature(history),
                                 last_event_index |-> FromIndex(history) - 1])
           /\ result' = Returned(None, FALSE)
           /\ budget' = budget - 1
           /\ fs' = fs]_vars

\* a new engine with the events of an earlier one was skipped as a
\* duplicate
DuplicateSkipped ==
    /\ call.op = "crystallize"
    /\ SkippedFor(history, "DUPLICATE")
    /\ IndexOf(fs, call.rel_dir).next_index = 1
    /\ Cardinality(DOMAIN fs) = 2

\* the last call was a crystallize that returned a path
JustCrystallized == call.op = "crystallize" /\ result.ret # None

\* C9 as stated: a crystallize that directly follows a successful
\* crystallize on the same engine is skipped as a DUPLICATE, creates no
\* file and does not advance next_index.
SecondCrystallizeIsDuplicate ==
    [][(JustCrystallized /\ call'.op = "crystallize")
        => /\ SkippedFor(history', "DUPLICATE")
           /\ DOMAIN fs' = DOMAIN fs
           /\ IndexOf(fs', call'.rel_dir).next_index
                  = IndexOf(fs, call'.rel_dir).next_index]_vars

\* C9, amended: a crystallize that directly follows a successful
\* crystallize on the same engine is never skipped as a DUPLICATE: the
\* signature of its slice is not in the index.  With budget 0 it is skipped
\* for NO_BUDGET; with budget >= 1, min_new_events <= 3 and a directory
\* that passes the membrane it writes a second crystal file and advances
\* next_index by 1.
SecondCrystallizeIsNew ==
    [][(JustCrystallized /\ call'.op = "crystallize")
        => /\ ~Indexed(fs, call'.rel_dir, CandidateSignature(history))
           /\ ~SkippedFor(history', "DUPLICATE")
           /\ budget = 0 => SkippedFor(history', "NO_BUDGET") /\ fs' = fs
           /\ (budget >= 1 /\ call'.min_new_events <= 3 /\ DirPasses(call'.rel_dir))
                => /\ result'.ret # None
                   /\ result'.ret # result.ret
                   /\ ~Exists(fs, WorkspacePath(host, result'.ret.some))
                   /\ Exists(fs', WorkspacePath(host, result'.ret.some))
                   /\ IndexOf(fs', call'.rel_dir).next_index
                          = IndexOf(fs, call'.rel_dir).next_index + 1]_vars

\* two crystals were written by two calls in a row
TwoCrystalsInARow ==
    /\ JustCrystallized
    /\ Len(history) >= 6
    /\ Last(history).type = "CRYSTAL_WRITE"
    /\ history[Len(history) - 3].type = "CRYSTAL_WRITE"
    /\ Last(history).index = history[Len(history) - 3].index + 1
    /\ Cardinality(DOMAIN fs) = 3

\* C10: right after a successful crystallize the new-event slice is the
\* three events the call appended, two ARTIFACT_WRITE and one
\* CRYSTAL_WRITE; a crystallize that follows with budget >= 1 and
\* min_new_events > 3 appends CRYSTAL_SKIP(NOT_ENOUGH_NEW_EVENTS,
\* event_count = 3) and leaves the index, its next_index and
\* last_event_index, as it was.
OwnEventsAreTheNewSlice ==
    [][JustCrystallized
        => /\ Len(history) >= 3
           /\ history[Len(history) - 2].type = "ARTIFACT_WRITE"
           /\ history[Len(history) - 1].type = "ARTIFACT_WRITE"
           /\ Last(history).type = "CRYSTAL_WRITE"
           /\ Last(history).last_event_index = Len(history) - 4
           /\ (call'.op = "crystallize" /\ budget >= 1 /\ call'.min_new_events > 3)
                => /\ history' = Append(history,
                                   [type |-> "CRYSTAL_SKIP",
                                    reason |-> "NOT_ENOUGH_NEW_EVENTS",
                                    event_count |-> 3,
                                    min_new_events |-> call'.min_new_events,
                                    last_event_index |-> Len(history) - 4])
                   /\ result' = Returned(None, FALSE)
                   /\ fs' = fs
                   /\ IndexOf(fs', call'.rel_dir).next_index
                          = IndexOf(fs, call'.rel_dir).next_index
                   /\ IndexOf(fs', call'.rel_dir).last_event_index
                          = IndexOf(fs, call'.rel_dir).last_event_index]_vars

\* a crystallize that followed a successful one found three new events
ThreeNewEventsSkipped ==
    /\ call.op = "crystallize"
    /\ call.min_new_events = 5
    /\ SkippedFor(history, "NOT_ENOUGH_NEW_EVENTS")
    /\ Last(history).event_count = 3
    /\ history[Len(history) - 1].type = "CRYSTAL_WRITE"
    /\ IndexOf(fs, call.rel_dir).next_index = 1
    /\ IndexOf(fs, call.rel_dir).last_event_index = Len(history) - 5

(***************************************************************************)
(* Properties of the indexes and of the history.                           *)
(***************************************************************************)

\* the crystal entries of a file that is a crystal index
CrystalEntries(text) ==
    IF JsonDecodeError(text) THEN << >>
    ELSE IF "crystals" \in DOMAIN JsonLoads(text) THEN JsonLoads(text).crystals
    ELSE << >>

\* some event of h has the type
HasEvent(h, type) == \E i \in 1..Len(h) : h[i].type = type

\* C11: on a workspace that starts empty, through steps, crystallize calls,
\* snapshots, rollbacks and successive engines, no two entries of a crystal
\* index share a signature.
NoSharedSignature ==
    \A f \in DOMAIN fs :
        \A i, j \in 1..Len(CrystalEntries(fs[f])) :
            CrystalEntries(fs[f])[i].signature = CrystalEntries(fs[f])[j].signature
                => i = j

\* after a second rollback to the same snapshot the engine offered the
\* slice again that it had crystallized after the first
RolledBackSliceSkipped ==
    /\ call.op = "crystallize"
    /\ SkippedFor(history, "DUPLICATE")
    /\ HasEvent(history, "ROLLBACK")
    /\ Len(IndexOf(fs, call.rel_dir).crystals) = 1

\* next_index as the file at loc records it: 0 when there is no such file
\* or record
NextIndexAt(files, loc) ==
    IF ~Exists(files, loc) THEN 0
    ELSE IF JsonDecodeError(files[loc]) THEN 0
    ELSE IF "next_index" \in DOMAIN JsonLoads(files[loc])
         THEN JsonLoads(files[loc]).next_index
         ELSE 0

\* <dir>/index.json on the host
IndexLocation(rel_dir) ==
    WorkspacePath(host, TargetDir(rel_dir) \o << "/" >> \o IndexName)

\* the call just made wrote a crystal or a packet
WroteIndexed ==
    call'.op \in {"crystallize", "compose_packet"} /\ result'.ret # None

CrystalFiles(files) ==
    {f \in DOMAIN files :
        /\ ~JsonDecodeError(files[f])
        /\ "payload" \in DOMAIN JsonLoads(files[f])}

\* {version, kind, payload} of a crystal
BodyOf(crystal) ==
    [version |-> crystal.version, kind |-> crystal.kind, payload |-> crystal.payload]

\* the insertion orders of the keys of a crystal body
BodyKeyOrders ==
    {ks \in [1..3 -> {"version", "kind", "payload"}] :
        \A i, j \in 1..3 : ks[i] = ks[j] => i = j}

\* the signature of a crystal body is the same for every insertion order
\* of its keys
SameForEveryKeyOrder(body) ==
    \A ks \in BodyKeyOrders :
        SignatureForItems(Items(body, ks))
            = SignatureForItems(Items(body, << "version", "kind", "payload" >>))

\* C13: the signature in a crystal file is the hash of the canonical text
\* of its {version, kind, payload}, whatever its created_at and whatever
\* the insertion order of the keys; a successful crystallize records this
\* one signature in the crystal file, in the new index entry and in the
\* CRYSTAL_WRITE event.
OneSignaturePerCrystal ==
    [][/\ \A f \in CrystalFiles(fs') :
              JsonLoads(fs'[f]).signature
                  = Sha256([fmt |-> "json", value |-> BodyOf(JsonLoads(fs'[f]))])
       /\ (call'.op = "crystallize" /\ result'.ret # None)
            => \A written \in {JsonLoads(fs'[WorkspacePath(host, result'.ret.some)])} :
                   /\ written.signature = Last(history').signature
                   /\ Last(IndexOf(fs', call'.rel_dir).crystals).signature
                          = Last(history').signature
                   /\ Last(IndexOf(fs', call'.rel_dir).crystals).path
                          = result'.ret.some
                   /\ \A body \in {BodyOf(written)} : SameForEveryKeyOrder(body)]_vars

\* a crystal stamped at one clock reading and indexed at the next carries
\* one signature in file, index and event
StampedCrystalWritten ==
    /\ call.op = "crystallize"
    /\ result.ret # None
    /\ JsonLoads(fs[WorkspacePath(host, result.ret.some)]).created_at = "T1"
    /\ Last(IndexOf(fs, call.rel_dir).crystals).created_at = "T2"
    /\ Last(IndexOf(fs, call.rel_dir).crystals).signature = Last(history).signature
    /\ Cardinality(CrystalFiles(fs)) = 2

\* the text is an index: it records a next_index
IsIndexText(text) ==
    ~JsonDecodeError(text) /\ "next_index" \in DOMAIN JsonLoads(text)

\* the events of h with the type and the path
WritesOf(h, type, path) ==
    {i \in 1..Len(h) : h[i].type = type /\ h[i].path = path}

RollbackRestoresSnapshot ==
    [][/\ call'.op = "snapshot"
            => /\ snap' = [value |-> value, history |-> history, budget |-> budget]
               /\ value' = value
               /\ history' = history
               /\ budget' = budget
               /\ fs' = fs
       /\ call'.op \notin {"snapshot", "init"} => snap' = snap
       /\ call'.op = "rollback"
            => /\ value' = snap.value
               /\ budget' = snap.budget
               /\ history' = Append(snap.history,
                                    [type |-> "ROLLBACK", to_value |-> snap.value,
                                     to_budget |-> snap.budget])]_vars

\* a packet was composed and exported after the snapshot; the rollback has
\* restored the budget and dropped their events
RolledBackOverExport ==
    /\ call.op = "rollback"
    /\ calls = 4
    /\ budget = MaxBudget + 1
    /\ Last(history).type = "ROLLBACK"
    /\ ~HasEvent(history, "PACKET_WRITE")
    /\ ~HasEvent(history, "EXPORT_WRITE")
    /\ \E f \in DOMAIN fs : fs[f].fmt = "md"

\* the operations that record what they did
RecordingOps ==
    {"step", "write_artifact", "crystallize", "select_crystal",
     "read_selected_crystal", "compose_packet", "export_packet_md"}

EngineOps == RecordingOps \cup {"snapshot", "rollback"}

AppendedOnly(event) == history' = Append(history, event) /\ budget' = budget

\* the call appended exactly one event and charged nothing
AppendedOne ==
    /\ Len(history') = Len(history) + 1
    /\ SubSeq(history', 1, Len(history)) = history
    /\ budget' = budget

\* the index file is missing, is not JSON or lists no crystal
NoCrystalsListed(files, loc) ==
    \/ ~Exists(files, loc)
    \/ JsonDecodeError(files[loc])
    \/ "crystals" \notin DOMAIN JsonLoads(files[loc])
    \/ JsonLoads(files[loc]).crystals = << >>

\* the positions the selection rule allows: the entries with the maximum
\* integer index, or the last dict entry when no entry has one
StatedChoice(crystals) ==
    IF IndexedPositions(crystals) # {}
    THEN {i \in IndexedPositions(crystals) :
             \A j \in IndexedPositions(crystals) : crystals[j].index <= crystals[i].index}
    ELSE {i \in DictPositions(crystals) : \A j \in DictPositions(crystals) : j <= i}

\* select_crystal skipped
SelectSkipped ==
    /\ AppendedOnly([type |-> "CRYSTAL_SELECT_SKIP", reason |-> "NO_CRYSTALS"])
    /\ result'.ret = None

\* select_crystal selected this entry
SelectedEntry(entry) ==
    /\ AppendedOne
    /\ Last(history').type = "CRYSTAL_SELECT"
    /\ Last(history').reason = "LATEST"
    /\ Last(history').path = entry.path
    /\ Last(history').index = Get(entry, "index")
    /\ "signature" \in DOMAIN Last(history')
    /\ result'.ret = Some(entry.path)

\* the index path is one select_crystal accepts
IndexPathAccepted(c) == AttentionNormalizeRelPath(c.rel_index_path, WorkspaceDir) # None

\* C18 as stated: select_crystal skips exactly when the strategy is not
\* "latest" or the index is missing, unparsable or lists no crystal, and
\* otherwise selects an entry with the maximum integer index, or the last
\* dict entry when no entry has an integer index.
SelectDecisionAsStated ==
    [][(call'.op = "select_crystal" /\ IndexPathAccepted(call'))
          => IF call'.strategy # "latest" \/ NoCrystalsListed(fs, IndexAt(host))
             THEN SelectSkipped
             ELSE \E i \in StatedChoice(JsonLoads(fs[IndexAt(host)]).crystals) :
                      SelectedEntry(JsonLoads(fs[IndexAt(host)]).crystals[i])]_vars

\* C18: select_crystal appends CRYSTAL_SELECT_SKIP(reason=NO_CRYSTALS) and
\* returns no path when the index path is refused, the strategy is not
\* "latest", the index is missing, unparsable or lists no crystal, or the
\* list holds no dict entry; otherwise it selects the first entry with the
\* maximum integer index, or the last dict entry when no entry has an
\* integer index, appends CRYSTAL_SELECT(reason=LATEST, index, path,
\* signature) and returns the entry's path.  Either way exactly one event
\* is appended and the budget is not charged.
SelectDecision ==
    [][call'.op = "select_crystal"
          => IF \/ ~IndexPathAccepted(call')
                \/ call'.strategy # "latest"
                \/ NoCrystalsListed(fs, IndexAt(host))
                \/ DictPositions(JsonLoads(fs[IndexAt(host)]).crystals) = {}
             THEN SelectSkipped
             ELSE \A crystals \in {JsonLoads(fs[IndexAt(host)]).crystals} :
                    \E i \in StatedChoice(crystals) :
                      /\ \A j \in StatedChoice(crystals) : i <= j
                      /\ SelectedEntry(crystals[i])]_vars

\* no entry of the index has an integer index and its last entry is no
\* dict: the last dict entry was selected
LastDictEntrySelected ==
    /\ call.op = "select_crystal"
    /\ result.ret = Some(PathA)
    /\ Last(history).type = "CRYSTAL_SELECT"
    /\ IndexedPositions(JsonLoads(fs[IndexAt(host)]).crystals) = {}
    /\ DictPositions(JsonLoads(fs[IndexAt(host)]).crystals) = {1, 2}
    /\ Len(JsonLoads(fs[IndexAt(host)]).crystals) = 3

\* the signature a crystal file carries when it can be read, None otherwise
FileSignature(h, files, path) ==
    IF ReadCrystal(h, files, path, None).ok
    THEN Get(ReadCrystal(h, files, path, None).payload, "signature")
    ELSE None

\* C19 as stated: CRYSTAL_SELECT records the signature of the chosen
\* crystal's file whenever the file can be read and carries a string
\* signature, and the signature of the index entry otherwise.
SelectSignatureAsStated ==
    [][(call'.op = "select_crystal" /\ result'.ret # None)
          => \A entry \in {SelectLatest(JsonLoads(fs[IndexAt(host)]).crystals)} :
             \A found \in {FileSignature(host, fs, entry.path)} :
                Last(history').signature
                    = IF IsStr(found) THEN found ELSE Get(entry, "signature")]_vars

\* C19: CRYSTAL_SELECT records the signature of the chosen crystal's file
\* whenever the file can be read and carries a non-empty string signature,
\* and the signature of the index entry otherwise.
SelectSignature ==
    [][(call'.op = "select_crystal" /\ result'.ret # None)
          => \A entry \in {SelectLatest(JsonLoads(fs[IndexAt(host)]).crystals)} :
             \A found \in {FileSignature(host, fs, entry.path)} :
                Last(history').signature
                    = IF IsStr(found) /\ found # EmptyString
                      THEN found ELSE Get(entry, "signature")]_vars

\* the index entry says SigE, the crystal file says SigF, the event says SigF
FileSignatureRecorded ==
    /\ call.op = "select_crystal"
    /\ result.ret = Some(PathA)
    /\ Last(history).type = "CRYSTAL_SELECT"
    /\ Last(history).signature = SigF
    /\ Get(SelectLatest(JsonLoads(fs[IndexAt(host)]).crystals), "signature") = SigE

\* read_selected_crystal denied
ReadDenied(event) == AppendedOnly(event) /\ result'.ret = None

\* read_selected_crystal returned what read_crystal read
ReadReturned(q, payload) ==
    /\ AppendedOnly([type |-> "CRYSTAL_READ", path |-> q, kind |-> payload.kind,
                     signature |-> Get(payload, "signature")])
    /\ result'.ret = Some(payload)

\* the file a cleaned path names is there
Found(h, files, rel_clean) ==
    PathExists(files, ReaderResolveFullPath(h, files, rel_clean))

\* C20: read_selected_crystal appends exactly one event and charges no
\* budget: an empty path gives CRYSTAL_READ_DENY(NOT_FOUND, NO_SELECTION); a
\* path that fails the path check gives VIOLATION, else a missing file gives
\* NOT_FOUND, else a file that does not parse or has the wrong shape gives
\* INVALID, each as CRYSTAL_READ_DENY(reason, path); otherwise it appends
\* CRYSTAL_READ(path, kind, signature) and returns the payload.  A payload
\* is returned iff the appended event is CRYSTAL_READ.
ReadSelectedDecision ==
    [][call'.op = "read_selected_crystal"
          => /\ \A q \in {call'.selection_path} :
                \A clean \in {ReaderNormalizeRelPath(q)} :
                   IF q = << >>
                   THEN ReadDenied([type |-> "CRYSTAL_READ_DENY", reason |-> "NOT_FOUND",
                                    detail |-> "NO_SELECTION"])
                   ELSE IF clean = None
                   THEN ReadDenied([type |-> "CRYSTAL_READ_DENY", reason |-> "VIOLATION",
                                    path |-> q])
                   ELSE IF ~Found(host, fs, clean.some)
                   THEN ReadDenied([type |-> "CRYSTAL_READ_DENY", reason |-> "NOT_FOUND",
                                    path |-> q])
                   ELSE IF ~ReadCrystal(host, fs, q, call'.expected_signature).ok
                   THEN ReadDenied([type |-> "CRYSTAL_READ_DENY", reason |-> "INVALID",
                                    path |-> q])
                   ELSE ReadReturned(q, ReadCrystal(host, fs, q,
                                                    call'.expected_signature).payload)
             /\ result'.ret # None <=> Last(history').type = "CRYSTAL_READ"]_vars

\* a path out of the workspace that names no file was denied as a
\* violation, not as a missing file
ViolationBeforeNotFound ==
    /\ call.op = "read_selected_crystal"
    /\ call.selection_path = << ".", ".", "/", "x" >>
    /\ result.ret = None
    /\ Last(history) = [type |-> "CRYSTAL_READ_DENY", reason |-> "VIOLATION",
                        path |-> << ".", ".", "/", "x" >>]

\* C21 as stated: for every path string handed to read_crystal, it fails
\* with VIOLATION if and only if write_artifact denies that path with
\* MEMBRANE_VIOLATION.
ReaderAppliesMembraneRule ==
    [][(call'.op = "read_selected_crystal" /\ call'.selection_path # << >>)
          => (Last(history').reason = "VIOLATION"
                <=> MembraneDenies(call'.selection_path))]_vars

\* the legacy wrapping of a digest
Wrapped(data, signature) ==
    [version |-> "legacy", kind |-> "event_digest", payload |-> data,
     signature |-> signature]

\* read_selected_crystal denied the path as INVALID
ReadInvalid(q) ==
    ReadDenied([type |-> "CRYSTAL_READ_DENY", reason |-> "INVALID", path |-> q])

\* the call read a file of the workspace that parses as JSON
ReadsJson(c, h, files) ==
    /\ c.op = "read_selected_crystal"
    /\ c.selection_path # << >>
    /\ ReaderNormalizeRelPath(c.selection_path) # None
    /\ Exists(files, ReaderResolveFullPath(h, files,
                         ReaderNormalizeRelPath(c.selection_path).some))
    /\ ~JsonDecodeError(files[ReaderResolveFullPath(h, files,
                                  ReaderNormalizeRelPath(c.selection_path).some)])

\* what that file parses to
JsonRead(c, h, files) ==
    JsonLoads(files[ReaderResolveFullPath(h, files,
                        ReaderNormalizeRelPath(c.selection_path).some)])

\* a crystal returned as it is, the signature backfilled when absent
AsIs(data, expected) ==
    IF "signature" \notin DOMAIN data /\ Truthy(expected)
    THEN WithKey(data, "signature", expected) ELSE data

\* C22 as stated: (a) an object with version, kind and an object-valued
\* payload is returned as is, (b) every object with signature and events
\* is wrapped as a legacy digest, (c) an object with events, no signature
\* and an expected signature is wrapped with that signature, and anything
\* else is INVALID.
ShapesAsStated ==
    [][ReadsJson(call', host, fs)
          => \A data \in {JsonRead(call', host, fs)} :
             \A q \in {call'.selection_path}, g \in {call'.expected_signature} :
                IF ~IsDict(data) THEN ReadInvalid(q)
                ELSE IF /\ {"version", "kind", "payload"} \subseteq DOMAIN data
                        /\ IsDict(data.payload)
                THEN ReadReturned(q, AsIs(data, g))
                ELSE IF {"signature", "events"} \subseteq DOMAIN data
                THEN ReadReturned(q, Wrapped(data, data.signature))
                ELSE IF "events" \in DOMAIN data /\ Truthy(g)
                THEN ReadReturned(q, Wrapped(data, g))
                ELSE ReadInvalid(q)]_vars

\* C22: for a file that parses as JSON, (a) an object with version, kind
\* and payload is returned as is when the payload is an object, with the
\* signature backfilled from a non-empty expected_signature when absent,
\* and is INVALID when the payload is no object, whatever else it carries;
\* (b) every other object with signature and events is wrapped as {version
\* "legacy", kind "event_digest", payload = the object, signature = its
\* signature}; (c) every other object with events and a non-empty
\* expected_signature is wrapped the same way with that signature; every
\* other object and every non-object is INVALID.
ShapesRecognized ==
    [][ReadsJson(call', host, fs)
          => \A data \in {JsonRead(call', host, fs)} :
             \A q \in {call'.selection_path}, g \in {call'.expected_signature} :
                IF ~IsDict(data) THEN ReadInvalid(q)
                ELSE IF {"version", "kind", "payload"} \subseteq DOMAIN data
                THEN IF IsDict(data.payload)
                     THEN ReadReturned(q, AsIs(data, g))
                     ELSE ReadInvalid(q)
                ELSE IF {"signature", "events"} \subseteq DOMAIN data
                THEN ReadReturned(q, Wrapped(data, data.signature))
                ELSE IF "events" \in DOMAIN data /\ Truthy(g)
                THEN ReadReturned(q, Wrapped(data, g))
                ELSE ReadInvalid(q)]_vars

\* a digest without signature was wrapped with the expected signature
DigestWrappedWithExpected ==
    /\ call.op = "read_selected_crystal"
    /\ call.expected_signature = SigE
    /\ result.ret = Some(Wrapped([events |-> << >>], SigE))
    /\ Last(history).type = "CRYSTAL_READ"
    /\ Last(history).signature = SigE

\* the call skipped: one event with this reason, this budget, no path
\* returned and no file touched
SkippedWith(type, reason, budget_after) ==
    /\ history' = Append(history, [type |-> type, reason |-> reason])
    /\ budget' = budget_after
    /\ result'.ret = None
    /\ fs' = fs

\* C23: compose_packet skips with PACKET_SKIP(NO_BUDGET) and the budget
\* unchanged when budget < cost; else with PACKET_SKIP(NO_SELECTION) and the
\* budget decreased by cost when the selection is missing or empty; else
\* with PACKET_SKIP(NO_CRYSTAL) and the budget decreased by cost when the
\* crystal is missing or empty.  Each skip appends exactly one event,
\* returns no path and writes no file.
ComposeSkipsInOrder ==
    [][call'.op = "compose_packet"
          => /\ budget < call'.cost
                  => SkippedWith("PACKET_SKIP", "NO_BUDGET", budget)
             /\ (budget >= call'.cost /\ call'.selection = None)
                  => SkippedWith("PACKET_SKIP", "NO_SELECTION", budget - call'.cost)
             /\ (budget >= call'.cost /\ call'.selection # None /\ call'.crystal = None)
                  => SkippedWith("PACKET_SKIP", "NO_CRYSTAL", budget - call'.cost)]_vars

\* a call without budget, selection and crystal was skipped for the budget
ComposeSkippedForBudgetFirst ==
    /\ call.op = "compose_packet"
    /\ call.selection = None
    /\ call.crystal = None
    /\ budget < call.cost
    /\ Last(history) = [type |-> "PACKET_SKIP", reason |-> "NO_BUDGET"]

\* <dir>/packet_<n as 4 digits>.json
PacketPath(rel_dir, n) ==
    TargetDir(rel_dir) \o << "/", "packet_" >> \o Format04d(n) \o << ".", "json" >>

\* the last min(n, Len(h)) events of h, none when n <= 0
LastEvents(h, n) ==
    IF n <= 0 THEN << >>
    ELSE IF n >= Len(h) THEN h
    ELSE [i \in 1..n |-> h[Len(h) - n + i]]

\* compose_packet is called with budget, a selection, a crystal and a
\* directory that passes the membrane
ComposeCanWrite(c) ==
    /\ c.op = "compose_packet"
    /\ budget >= c.cost
    /\ c.selection # None
    /\ c.crystal # None
    /\ DirPasses(c.rel_dir)

\* the packet file holds this packet
PacketWritten(packet, n, c) ==
    /\ packet.index = n
    /\ packet.crystal.path = c.selection.path
    /\ packet.crystal.signature = c.selection.signature
    /\ packet.crystal.kind = c.crystal.kind
    /\ packet.history_tail = LastEvents(history, c.tail_n)

\* the packet index has moved on by one entry for packet n at path
PacketIndexed(before, after, n, path) ==
    /\ after.next_index = n + 1
    /\ Len(after.packets) = Len(before.packets) + 1
    /\ SubSeq(after.packets, 1, Len(before.packets)) = before.packets
    /\ Last(after.packets).index = n
    /\ Last(after.packets).path = path

\* C24: with budget >= cost, a selection and a crystal, compose_packet
\* writes <dir>/packet_<next_index as 4 digits>.json carrying that index,
\* the selection's path and signature, the crystal's kind and the last
\* min(tail_n, history length) events of the history it was called with
\* (none when tail_n <= 0); it writes the packet index with next_index + 1
\* and a new entry, appends PACKET_WRITE(index, path, bytes,
\* crystal_signature) as the last event, decreases the budget by cost and
\* returns the packet path.
ComposeSucceeds ==
    [][ComposeCanWrite(call')
          => \A n \in {NextIndexAt(fs, IndexLocation(call'.rel_dir))} :
             \A path \in {PacketPath(call'.rel_dir, n)} :
                /\ result'.ret = Some(path)
                /\ budget' = budget - call'.cost
                /\ Exists(fs', WorkspacePath(host, path))
                /\ PacketWritten(JsonLoads(fs'[WorkspacePath(host, path)]), n, call')
                /\ PacketIndexed(LoadPacketIndexPayload(fs, IndexLocation(call'.rel_dir)),
                                 JsonLoads(fs'[IndexLocation(call'.rel_dir)]), n, path)
                /\ SubSeq(history', 1, Len(history)) = history
                /\ Last(history')
                     = [type |-> "PACKET_WRITE", index |-> n, path |-> path,
                        bytes |-> Utf8Len(fs'[WorkspacePath(host, path)]),
                        crystal_signature |-> call'.selection.signature]]_vars

\* the second packet of an engine created without events: asked for seven
\* events, it carries the three the first compose_packet appended
SecondPacketCarriesShortTail ==
    /\ call.op = "compose_packet"
    /\ call.tail_n = 7
    /\ calls = 2
    /\ result.ret = Some(PacketPath(<< "packets" >>, 1))
    /\ Len(JsonLoads(fs[WorkspacePath(host, PacketPath(<< "packets" >>, 1))]).history_tail) = 3

\* C25: when the target directory of crystallize, compose_packet or
\* export_packet_md fails the membrane, the call appends the membrane's
\* DENY(MEMBRANE_VIOLATION) event and then its own skip event with reason
\* OTHER, detail MEMBRANE_VIOLATION and the denied path, returns no path,
\* decreases the budget by the cost and writes no file.
DeniedDirectorySkips ==
    [][(call'.op \in ChargedOps /\ budget >= CostOf(call') /\ ~DirPasses(call'.rel_dir))
          => /\ Len(history') = Len(history) + 2
             /\ SubSeq(history', 1, Len(history)) = history
             /\ history'[Len(history) + 1].type = "DENY"
             /\ history'[Len(history) + 1].reason = "MEMBRANE_VIOLATION"
             /\ MembraneDenies(history'[Len(history) + 1].path)
             /\ Last(history').type = SkipTypeOf(call'.op)
             /\ Last(history').reason = "OTHER"
             /\ Last(history').detail = "MEMBRANE_VIOLATION"
             /\ Last(history').path = history'[Len(history) + 1].path
             /\ StartsWith(Last(history').path, TargetDir(call'.rel_dir))
             /\ result'.ret = None
             /\ budget' = budget - CostOf(call')
             /\ fs' = fs]_vars

\* crystallize into "../x" was denied, charged and wrote nothing
CrystallizeIntoParentDenied ==
    /\ call.op = "crystallize"
    /\ call.rel_dir = << ".", ".", "/", "x" >>
    /\ Last(history).type = "CRYSTAL_SKIP"
    /\ Last(history).reason = "OTHER"
    /\ Last(history).path = << ".", ".", "/", "x", "/" >> \o CrystalName(0)
    /\ budget = MaxBudget - CRYSTAL_COST
    /\ fs = << >>

\* the packet carries an index field that converts to an integer
ExplicitIndexYields(packet) == "index" \in DOMAIN packet /\ ~IntFails(packet.index)

\* the packet's path names a file packet_<digits>
StemYields(h, packet) ==
    /\ "path" \in DOMAIN packet
    /\ StartsWith(Stem(h, packet.path), << "packet_" >>)
    /\ IsDigits(RemoveAtom(Stem(h, packet.path), "packet_"))

\* C26: with the cost covered, export_packet_md skips with
\* EXPORT_SKIP(INVALID_PACKET), the budget decreased by cost and no file
\* written, exactly when neither the explicit index field nor a packet_<n>
\* file name in the packet's path yields an integer.
ExportSkipsWithoutAnyIndex ==
    [][(call'.op = "export_packet_md" /\ budget >= call'.cost)
          => (SkippedWith("EXPORT_SKIP", "INVALID_PACKET", budget - call'.cost)
                <=> (~ExplicitIndexYields(call'.packet) /\ ~StemYields(host, call'.packet)))]_vars

\* export_packet_md can write: the cost is covered, the packet yields an
\* index and the target directory passes the membrane
ExportCanWrite(c) ==
    /\ c.op = "export_packet_md"
    /\ budget >= c.cost
    /\ PacketIndex(host, c.packet) # None
    /\ DirPasses(c.rel_dir)

\* <dir>/packet_<n as 4 digits>.md
ExportPath(rel_dir, n) == JoinRel(TargetDir(rel_dir), ExportName(n))

\* C27: a successful export_packet_md writes <dir>/packet_<n as 4 digits>.md,
\* appends EXPORT_WRITE(path, bytes, packet_index = n, crystal_signature =
\* the packet's crystal signature) as the last event, decreases the budget
\* by cost and returns the export path; the text written is determined by
\* the packet alone and carries the packet's crystal signature, so the
\* same packet exported again gives the same text at the same path.
ExportSucceeds ==
    [][ExportCanWrite(call')
          => \A n \in {PacketIndex(host, call'.packet).some} :
             \A path \in {ExportPath(call'.rel_dir, n)} :
             \A loc \in {WorkspacePath(host, path)} :
                /\ result'.ret = Some(path)
                /\ budget' = budget - call'.cost
                /\ Exists(fs', loc)
                /\ fs'[loc] = RenderMarkdown(call'.packet, n)
                /\ fs'[loc].title = n
                /\ fs'[loc].crystal_signature = PacketCrystalGet(call'.packet, "signature")
                /\ \A f \in DOMAIN fs : f # loc => Exists(fs', f) /\ fs'[f] = fs[f]
                /\ Last(history') =
                       [type |-> "EXPORT_WRITE", path |-> path,
                        bytes |-> Utf8Len(fs'[loc]), packet_index |-> n,
                        crystal_signature |-> PacketCrystalGet(call'.packet, "signature")]
                /\ SubSeq(history', 1, Len(history)) = history
                /\ (call.op = "export_packet_md" /\ call.packet = call'.packet
                      /\ call.rel_dir = call'.rel_dir /\ result.ret # None)
                     => (result'.ret = result.ret /\ fs'[loc] = fs[loc])]_vars

\* the exporter's test packet was exported twice, at different budgets
LiteralPacketExportedTwice ==
    /\ call.op = "export_packet_md"
    /\ call.packet = LiteralPacket
    /\ result.ret = Some(ExportPath(<< "exports" >>, 0))
    /\ Cardinality(WritesOf(history, "EXPORT_WRITE", ExportPath(<< "exports" >>, 0))) = 2
    /\ fs[WorkspacePath(host, ExportPath(<< "exports" >>, 0))].crystal_signature
         = LiteralSelection.signature

\* a run with --pipeline-crystal in which every stage has succeeded
RunSucceeded ==
    /\ pipeline.pc \in {"print", "done"}
    /\ pipeline.pipeline_crystal
    /\ pipeline.pipeline_reason = None

\* the values events of the given types carry in the given field
Carried(h, types, field) ==
    {Get(h[i], field) : i \in {j \in 1..Len(h) : h[j].type \in types}}

\* the signatures a run has recorded: in its CRYSTAL_WRITE, CRYSTAL_SELECT
\* and CRYSTAL_READ events, in the packet file, and in its PACKET_WRITE and
\* EXPORT_WRITE events
RunSignatures ==
    Carried(history, {"CRYSTAL_WRITE", "CRYSTAL_SELECT", "CRYSTAL_READ"}, "signature")
    \cup Carried(history, {"PACKET_WRITE", "EXPORT_WRITE"}, "crystal_signature")
    \cup {JsonLoads(fs[WorkspacePath(host, pipeline.packet_path.some)]).crystal.signature}

\* C28: in a run crystallize -> select_crystal -> read_selected_crystal ->
\* compose_packet -> export_packet_md in which every stage succeeds, the
\* signatures of the CRYSTAL_WRITE, CRYSTAL_SELECT and CRYSTAL_READ events,
\* of the packet's crystal, and of the PACKET_WRITE and EXPORT_WRITE events
\* are one and the same.
SignaturePropagates ==
    RunSucceeded
      => /\ \A t \in {"CRYSTAL_WRITE", "CRYSTAL_SELECT", "CRYSTAL_READ",
                      "PACKET_WRITE", "EXPORT_WRITE"} : HasEvent(history, t)
         /\ Cardinality(RunSignatures) = 1
         /\ \A sig \in RunSignatures : IsStr(sig)

\* the second run on the workspace went through: the crystal it wrote, and
\* not the first run's, is the one selected, read, packed and exported
SecondRunCarriesItsCrystal ==
    /\ RunSucceeded
    /\ pipeline.run = 2
    /\ pipeline.pc = "done"
    /\ pipeline.selected = Some(JoinRel(<< "crystals" >>, CrystalName(1)))
    /\ pipeline.export_path # None

\* the event a stage appends when it skips or denies
StageSkipType(op) ==
    IF op = "select_crystal" THEN "CRYSTAL_SELECT_SKIP"
    ELSE IF op = "read_selected_crystal" THEN "CRYSTAL_READ_DENY"
    ELSE SkipTypeOf(op)

\* the stages of the pipeline
StageOps ==
    {"crystallize", "select_crystal", "read_selected_crystal", "compose_packet",
     "export_packet_md"}

\* the positions of the events of a type
PositionsOf(h, type) == {i \in 1..Len(h) : h[i].type = type}

\* every EXPORT_WRITE comes after a PACKET_WRITE that comes after a
\* CRYSTAL_READ that comes after a CRYSTAL_SELECT
ExportsInOrder(h) ==
    \A e \in PositionsOf(h, "EXPORT_WRITE") :
        \E p \in PositionsOf(h, "PACKET_WRITE") :
        \E r \in PositionsOf(h, "CRYSTAL_READ") :
        \E q \in PositionsOf(h, "CRYSTAL_SELECT") :
            q < r /\ r < p /\ p < e

\* the run is under way and its last stage returned nothing
StageFailed ==
    /\ pipeline.pc \notin {"off", "done"}
    /\ call.op \in StageOps
    /\ result.ret = None

\* the PIPELINE line says what the run's last stage did
ReportedAsRecorded ==
    pipeline.pc = "done"
      => IF result.ret = None
         THEN /\ Last(history).type = StageSkipType(call.op)
              /\ pipeline.line = Some([status |-> "SKIP", reason |-> Last(history).reason])
         ELSE /\ call.op = "export_packet_md"
              /\ Last(history).type = "EXPORT_WRITE"
              /\ pipeline.line = Some([status |-> "OK", packet |-> pipeline.packet_path,
                                       export |-> result.ret])

\* C29: the pipeline calls select, read, compose and export in this order,
\* each only when every earlier stage has succeeded; once a stage has ended
\* in its skip or deny event no later stage appends an event, charges
\* budget or writes a file, and the reason reported is that event's; every
\* EXPORT_WRITE of a run comes after the run's CRYSTAL_SELECT, CRYSTAL_READ
\* and PACKET_WRITE, in this order.
PipelineShortCircuits ==
    [][/\ call'.op = "select_crystal" /\ calls' # calls
            => call.op \in {"init", "crystallize"} /\ (call.op = "init" \/ result.ret # None)
       /\ call'.op = "read_selected_crystal" /\ calls' # calls
            => call.op = "select_crystal" /\ result.ret # None
                 /\ Last(history).type = "CRYSTAL_SELECT"
       /\ call'.op = "compose_packet" /\ calls' # calls
            => call.op = "read_selected_crystal" /\ result.ret # None
                 /\ Last(history).type = "CRYSTAL_READ"
       /\ call'.op = "export_packet_md" /\ calls' # calls
            => call.op = "compose_packet" /\ result.ret # None
                 /\ Last(history).type = "PACKET_WRITE"
       /\ StageFailed
            => /\ Last(history).type = StageSkipType(call.op)
               /\ history' = history /\ budget' = budget /\ fs' = fs /\ calls' = calls
       /\ ReportedAsRecorded'
       /\ ExportsInOrder(history')]_vars

\* a run was cut short by compose_packet: the crystal was written, selected
\* and read, the packet skipped for want of budget, and nothing exported
RunStoppedAtCompose ==
    /\ pipeline.pc = "done"
    /\ call.op = "compose_packet"
    /\ pipeline.line = Some([status |-> "SKIP", reason |-> "NO_BUDGET"])
    /\ HasEvent(history, "CRYSTAL_READ")
    /\ ~HasEvent(history, "EXPORT_SKIP")
    /\ ~HasEvent(history, "EXPORT_WRITE")
    /\ budget = 0

\* the ops whose result tells whether they skipped
ResultOps ==
    {"crystallize", "select_crystal", "read_selected_crystal", "compose_packet",
     "export_packet_md"}

\* C30: every call of step, write_artifact, crystallize, select_crystal,
\* read_selected_crystal, compose_packet and export_packet_md returns
\* normally, and crystallize, select_crystal, read_selected_crystal,
\* compose_packet and export_packet_md return no result exactly when the
\* last event of history is their own skip or deny event with a reason.
NoOutcomeIsFatal ==
    [][call'.op \in ResultOps \cup {"step", "write_artifact"}
          => /\ ~result'.raised
             /\ call'.op \in ResultOps
                  => (result'.ret = None
                        <=> /\ Last(history').type = StageSkipType(call'.op)
                            /\ "reason" \in DOMAIN Last(history'))]_vars

\* the other process
Other(w) == CHOOSE v \in Writers : v # w

\* the entries of a crystal index or of a packet index
EntriesOf(index_payload) ==
    IF "crystals" \in DOMAIN index_payload
    THEN index_payload.crystals ELSE index_payload.packets

\* process v runs or has run the same operation as w from the same reading
\* of the index
SameReading(w, v) ==
    /\ "op" \in DOMAIN writers[v]
    /\ writers[v].op = writers[w].op
    /\ writers[v].index_payload = writers[w].index_payload

\* v has written its artifact file
HasWrittenArtifact(w, v) ==
    /\ SameReading(w, v)
    /\ writers[v].pc = "written" \/ (writers[v].pc = "idle" /\ writers[v].ret # None)

\* v has returned its path
HasReturned(w, v) ==
    /\ SameReading(w, v)
    /\ writers[v].pc = "idle"
    /\ writers[v].ret # None

\* the event a successful call ends with
WriteTypeOf(op) == IF op = "crystallize" THEN "CRYSTAL_WRITE" ELSE "PACKET_WRITE"

\* w writes over the artifact file of v
OverwritesArtifact(w, v) ==
    \A loc \in {WorkspacePath(host, writers[w].path)} :
        /\ writers[v].path = writers[w].path
        /\ fs[loc] = writers[v].text
        /\ fs'[loc] = writers[w].text
        /\ fs'[loc] # fs[loc]

\* w writes the index without the entry of v, and both calls have
\* succeeded with the same index and path
DropsIndexEntry(w, v) ==
    \A loc \in {WorkspacePath(host, writers[w].c.index_rel_path)} :
    \A before \in {JsonLoads(fs[loc])}, after \in {JsonLoads(fs'[loc])} :
        /\ Len(EntriesOf(after)) = Len(EntriesOf(writers[w].index_payload)) + 1
        /\ Len(EntriesOf(before)) = Len(EntriesOf(after))
        /\ after.next_index = before.next_index
        /\ Last(EntriesOf(before)).created_at = WriterClock(v)[2]
        /\ Last(EntriesOf(after)).created_at = WriterClock(w)[2]
        /\ \A i \in 1..Len(EntriesOf(after)) :
               EntriesOf(after)[i].created_at = WriterClock(v)[2]
                 => i <= Len(EntriesOf(writers[w].index_payload))
        /\ writers'[w].ret = writers[v].ret
        /\ Last(writers'[w].state.history).type = WriteTypeOf(writers[w].op)
        /\ Last(writers[v].state.history).type = WriteTypeOf(writers[w].op)
        /\ Last(writers'[w].state.history).index = Last(writers[v].state.history).index
        /\ Last(writers'[w].state.history).path = Last(writers[v].state.history).path

\* C31: when two engines run crystallize (or compose_packet) on one
\* workspace and both read the index before either writes it, both take
\* the same next_index and file name, the later artifact write replaces
\* the earlier file, the later index write leaves the earlier call's entry
\* out, and both calls end in their CRYSTAL_WRITE / PACKET_WRITE event.
RaceLosesWrite ==
    [][\A w \in Writers :
          /\ (writers[w].pc = "loaded" /\ writers'[w].pc = "written"
                /\ HasWrittenArtifact(w, Other(w)))
               => OverwritesArtifact(w, Other(w))
          /\ (writers[w].pc = "written" /\ writers'[w].pc = "idle"
                /\ HasReturned(w, Other(w)))
               => DropsIndexEntry(w, Other(w))]_vars

\* both engines have crystallized different histories from the empty
\* workspace, both were told crystal_0000, and the index lists one crystal
BothCrystallizedOneListed ==
    /\ \A w \in Writers : writers[w].pc = "idle" /\ writers[w].ret # None
    /\ writers[1].op = "crystallize"
    /\ writers[2].op = "crystallize"
    /\ writers[1].ret = writers[2].ret
    /\ writers[1].c.signature # writers[2].c.signature
    /\ Last(writers[1].state.history).type = "CRYSTAL_WRITE"
    /\ Last(writers[2].state.history).type = "CRYSTAL_WRITE"
    /\ Len(JsonLoads(fs[WorkspacePath(host, JoinRel(<< "crystals" >>, IndexName))]).crystals) = 1

\* engine w has just taken a step with its budget at 1 or more
SteppedWithBudget(w) ==
    /\ "before" \in DOMAIN writers[w]
    /\ writers[w].before.budget >= 1

\* what C32 says of the step engine w has just taken
StepAsStated(w) ==
    \A st \in {writers[w].before}, new \in {writers[w].state} :
        /\ new.value = st.value + writers[w].input
        /\ new.budget = st.budget - 1
        /\ new.history =
               Append(st.history,
                      [type |-> "STEP", input |-> writers[w].input,
                       result |-> new.value, cost |-> 1,
                       budget_after |-> new.budget])

\* C32: step(input) called with budget >= 1 adds input to value, takes
\* exactly 1 off the budget and appends exactly one event STEP(input,
\* result = new value, cost = 1, budget_after = new budget); two engines
\* in equal states given the same input end in equal value, budget and
\* last event.
StepAddsAndCharges ==
    /\ \A w \in Writers : SteppedWithBudget(w) => StepAsStated(w)
    /\ \A w, v \in Writers :
           (/\ SteppedWithBudget(w) /\ SteppedWithBudget(v)
            /\ writers[w].before = writers[v].before
            /\ writers[w].input = writers[v].input)
             => /\ writers[w].state.value = writers[v].state.value
                /\ writers[w].state.budget = writers[v].state.budget
                /\ Last(writers[w].state.history) = Last(writers[v].state.history)

\* the two engines have taken the same two steps and stand at value 1
\* with nothing left of a budget of 2
TwinsInStep ==
    /\ writers[1].state = writers[2].state
    /\ writers[1].state.value = 1
    /\ writers[1].state.budget = 0
    /\ Len(writers[1].state.history) = 2
    /\ Last(writers[2].state.history) =
           [type |-> "STEP", input |-> 3, result |-> 1, cost |-> 1, budget_after |-> 0]

\* the operations that are free of charge
FreeOps ==
    {"write_artifact", "select_crystal", "read_selected_crystal", "snapshot",
     "load_packet", "load_latest_packet"}

\* C33: write_artifact (allowed or denied), select_crystal,
\* read_selected_crystal, snapshot, load_packet and load_latest_packet
\* never change the budget; no operation other than step and rollback
\* changes the value; load_packet and load_latest_packet append no history
\* event.
FreeOpsFrame ==
    [][/\ call'.op \in FreeOps => budget' = budget
       /\ call'.op \notin {"step", "rollback"} => value' = value
       /\ call'.op \in {"load_packet", "load_latest_packet"} => history' = history]_vars

\* load_latest_packet has returned the packet compose_packet has just
\* written, on an engine that still holds budget
LatestPacketLoadedFree ==
    /\ call.op = "load_latest_packet"
    /\ result.ret # None
    /\ Last(history).type = "PACKET_WRITE"
    /\ budget >= 1

\* the places of the CRYSTAL_WRITE events of a history
CrystalWrites(h) == PositionsOf(h, "CRYSTAL_WRITE")

\* the from_index the statement gives the crystal written at place i: one
\* past the to_index of the crystal before it, 0 for the first
StatedFromIndex(h, i) ==
    IF \E j \in CrystalWrites(h) : j < i
    THEN h[CHOOSE j \in CrystalWrites(h) :
               /\ j < i
               /\ \A k \in CrystalWrites(h) : k < i => k <= j].last_event_index + 1
    ELSE 0

\* the payload of the crystal file a CRYSTAL_WRITE event names
WrittenPayload(event) == JsonLoads(fs[WorkspacePath(host, event.path)]).payload

\* C34: on an engine that is never rolled back, each crystal's from_index
\* is the previous crystal's to_index + 1 (0 for the first), its to_index
\* is from_index + event_count - 1 and its events are
\* history[from_index..to_index]: the crystals cover a prefix of the
\* history without gap or overlap, and the events crystallize appends
\* itself fall into the next crystal's slice.
SlicesAreContiguous ==
    \A i \in CrystalWrites(history) :
        \A e \in {history[i]} :
            /\ e.from_index = StatedFromIndex(history, i)
            /\ e.last_event_index = e.from_index + e.event_count - 1
            /\ e.last_event_index < i - 1
            /\ Exists(fs, WorkspacePath(host, e.path))
            /\ WrittenPayload(e).from_index = e.from_index
            /\ WrittenPayload(e).to_index = e.last_event_index
            /\ WrittenPayload(e).event_count = e.event_count
            /\ WrittenPayload(e).events =
                   SubSeq(history, e.from_index + 1, e.last_event_index + 1)

\* the engine has written two crystals: the second holds the three events
\* the first crystallize appended
SecondCrystalHoldsFirstWrite ==
    /\ Cardinality(CrystalWrites(history)) = 2
    /\ Last(history).type = "CRYSTAL_WRITE"
    /\ Last(history).from_index = 5
    /\ Last(history).event_count = 3
    /\ WrittenPayload(Last(history)).events[3].type = "CRYSTAL_WRITE"
    /\ WrittenPayload(Last(history)).events[1].type = "ARTIFACT_WRITE"

\* the crystals directory of the workspace
TheCrystalDir == << "crystals" >>

\* <dir>/crystal_<n>.json on the host
CrystalFileAt(n) == WorkspacePath(host, JoinRel(TheCrystalDir, CrystalName(n)))

\* the crystal files that can exist after the calls explored
CrystalNumbers == 0..MaxIndexCalls

\* the index records what it is stated to: next_index is the number of
\* entries, the entries carry 0..next_index - 1 in list order,
\* last_event_index is the last entry's to_index, and every entry names an
\* existing crystal file with the entry's signature
IndexRecords(files, index) ==
    /\ {"next_index", "last_event_index", "crystals"} \subseteq DOMAIN index
    /\ index.next_index = Len(index.crystals)
    /\ \A i \in 1..Len(index.crystals) : index.crystals[i].index = i - 1
    /\ index.crystals # << >>
    /\ index.last_event_index = index.crystals[Len(index.crystals)].to_index
    /\ \A i \in 1..Len(index.crystals) :
           /\ Exists(files, WorkspacePath(host, index.crystals[i].path))
           /\ ~JsonDecodeError(files[WorkspacePath(host, index.crystals[i].path)])
           /\ JsonLoads(files[WorkspacePath(host, index.crystals[i].path)]).signature
                  = index.crystals[i].signature

\* every crystal file has its index entry
NoOrphanCrystal(files, entries) ==
    \A n \in CrystalNumbers :
        Exists(files, CrystalFileAt(n))
            => \E i \in 1..Len(entries) : WorkspacePath(host, entries[i].path) = CrystalFileAt(n)

\* the index of the crystals directory is consistent with the files
IndexConsistentOn(files) ==
    IF ~Exists(files, IndexLocation(TheCrystalDir))
    THEN NoOrphanCrystal(files, << >>)
    ELSE /\ ~JsonDecodeError(files[IndexLocation(TheCrystalDir)])
         /\ IndexRecords(files, JsonLoads(files[IndexLocation(TheCrystalDir)]))
         /\ NoOrphanCrystal(files, JsonLoads(files[IndexLocation(TheCrystalDir)]).crystals)

\* the index of the crystals directory is consistent with its files
IndexConsistent == IndexConsistentOn(fs)

\* the call is a write_artifact into the crystals directory
WritesIntoCrystalDir(c) ==
    /\ c.op = "write_artifact"
    /\ IsProperPrefix(WorkspacePath(host, TheCrystalDir).parts,
                      WorkspacePath(host, c.rel_path).parts)

\* C35: on a workspace that starts empty and uses one crystals directory,
\* every operation other than a write_artifact into that directory keeps
\* the crystal index consistent: next_index is the number of entries, the
\* entries carry 0..next_index - 1 in list order, last_event_index is the
\* last entry's to_index, every entry names an existing crystal file with
\* the entry's signature, and no crystal file is without an entry (crystal
\* file and index are written both or neither).
IndexStaysConsistent ==
    [][IndexConsistent /\ ~WritesIntoCrystalDir(call')
         => \A files \in {fs'} : IndexConsistentOn(files)]_vars

\* C35 as stated: the index is consistent after any sequence of operations
IndexConsistentAfterAnyCalls == IndexConsistent

\* the index lists the two crystals the engine has written, and both
\* files are there
TwoCrystalsListed ==
    /\ call.op = "crystallize"
    /\ result.ret # None
    /\ IndexConsistent
    /\ Exists(fs, IndexLocation(TheCrystalDir))
    /\ Len(JsonLoads(fs[IndexLocation(TheCrystalDir)]).crystals) = 2
    /\ Exists(fs, CrystalFileAt(1))

\* the events the statement counts against the budget
ChargedEvents(h) ==
    {i \in 1..Len(h) :
        \/ h[i].type \in {"STEP", "CRYSTAL_WRITE", "PACKET_WRITE", "EXPORT_WRITE"}
        \/ /\ h[i].type \in {"CRYSTAL_SKIP", "PACKET_SKIP", "EXPORT_SKIP"}
           /\ h[i].reason # "NO_BUDGET"}

RECURSIVE StepInputSum(_)
\* the sum of the input fields of the STEP events
StepInputSum(h) ==
    IF h = << >> THEN 0
    ELSE StepInputSum(SubSeq(h, 1, Len(h) - 1))
           + (IF Last(h).type = "STEP" THEN Last(h).input ELSE 0)

\* C36: for an engine created with an empty history and used with the
\* default costs, in every reachable state, after a rollback too, the
\* budget is initial_budget less the number of STEP, CRYSTAL_WRITE,
\* PACKET_WRITE and EXPORT_WRITE events and of CRYSTAL_SKIP, PACKET_SKIP
\* and EXPORT_SKIP events with a reason other than NO_BUDGET, and the
\* value is initial_value plus the inputs of the STEP events.
BudgetAndValueFromHistory ==
    /\ budget = InitialBudget - Cardinality(ChargedEvents(history))
    /\ value = InitialValue + StepInputSum(history)

\* the engine has stepped, taken a snapshot and rolled back to it
RolledBackAfterCharge ==
    /\ call.op = "rollback"
    /\ Last(history).type = "ROLLBACK"
    /\ Cardinality(ChargedEvents(history)) = 1
    /\ budget = InitialBudget - 1
    /\ value = InitialValue - 2

\* the new events of the engine when it took its snapshot
RepeatK == Len(SliceFrom(snap.history, LastCrystalWriteIndex(snap.history) + 1))

\* the i-th skip of the repeated call crystallize(min_new_events = N)
RepeatSkip(N, i) ==
    [type |-> "CRYSTAL_SKIP", reason |-> "NOT_ENOUGH_NEW_EVENTS",
     event_count |-> RepeatK + i - 1, min_new_events |-> N,
     last_event_index |-> LastCrystalWriteIndex(snap.history)]

\* the history after j such skips
HistoryAfterSkips(N, j) == snap.history \o [i \in 1..j |-> RepeatSkip(N, i)]

\* the slice the call after N - k skips finds
SliceAfterSkips(N) ==
    SliceFrom(HistoryAfterSkips(N, N - RepeatK), LastCrystalWriteIndex(snap.history) + 1)

\* the engine is calling crystallize(min_new_events = N) from a state with
\* k < N new events and a budget of N - k + 1 or more
RepeatsFrom(c) ==
    /\ c.op = "crystallize"
    /\ RepeatK < c.min_new_events
    /\ snap.budget >= c.min_new_events - RepeatK + 1

\* j calls have skipped for too few events, each charged 1
SkippedTimes(N, j, h, b, res) ==
    /\ h = HistoryAfterSkips(N, j)
    /\ b = snap.budget - j
    /\ res.ret = None

\* the call after the skips has written a crystal that holds them
WroteSkips(N, h, b, res, files) ==
    /\ res.ret # None
    /\ Last(h).type = "CRYSTAL_WRITE"
    /\ b = snap.budget - (N - RepeatK + 1)
    /\ SubSeq(h, 1, Len(snap.history) + N - RepeatK) = HistoryAfterSkips(N, N - RepeatK)
    /\ Last(h).event_count = N
    /\ JsonLoads(files[WorkspacePath(host, Last(h).path)]).payload.events = SliceAfterSkips(N)

\* the call after the skips has found the signature of its slice in the
\* index and skipped as a duplicate, charged 1
SkippedAsDuplicate(N, h, b, res) ==
    /\ res.ret = None
    /\ b = snap.budget - (N - RepeatK + 1)
    /\ h = Append(HistoryAfterSkips(N, N - RepeatK),
                  [type |-> "CRYSTAL_SKIP", reason |-> "DUPLICATE",
                   signature |-> SignatureForCrystal(
                                     CrystalBody(SliceAfterSkips(N),
                                                 LastCrystalWriteIndex(snap.history) + 1)),
                   last_event_index |-> LastCrystalWriteIndex(snap.history)])

\* the index of the default directory lists the signature of the slice
SliceIsListed(N, files) ==
    SignatureForCrystal(CrystalBody(SliceAfterSkips(N),
                                    LastCrystalWriteIndex(snap.history) + 1))
        \in KnownSignatures(IndexOf(files, DefaultCrystalDir).crystals)

Overlaps(e, later) == e.from_index <= later.to_index /\ later.from_index <= e.to_index

\* C38: rollback creates, modifies and deletes no workspace file, so the
\* files written after the snapshot stay and next_index is not rewound;
\* the next crystallize that writes takes its from_index from the history
\* it finds (after a rollback past a CRYSTAL_WRITE, from the restored one)
\* and its file number from next_index of the index file.
RollbackKeepsFiles ==
    [][/\ call'.op = "rollback" => fs' = fs
       /\ (call'.op = "crystallize" /\ result'.ret # None)
            => \A e \in {Last(history')} :
                   /\ e.type = "CRYSTAL_WRITE"
                   /\ e.from_index = StatedFromIndex(history, Len(history) + 1)
                   /\ e.index = NextIndexAt(fs, IndexLocation(call'.rel_dir))
                   /\ NextIndexAt(fs', IndexLocation(call'.rel_dir)) = e.index + 1
                   /\ Exists(fs', WorkspacePath(host, e.path))
                   /\ ~Exists(fs, WorkspacePath(host, e.path))]_vars

\* the engine has crystallized, rolled back to the snapshot taken before,
\* and crystallized again: the second crystal is number 1 and starts at
\* event 0 as the first did, which stays listed
OverlappingCrystalListed ==
    /\ call.op = "crystallize"
    /\ result.ret # None
    /\ HasEvent(history, "ROLLBACK")
    /\ Last(history).index = 1
    /\ Last(history).from_index = 0
    /\ Len(IndexOf(fs, call.rel_dir).crystals) = 2
    /\ Overlaps(IndexOf(fs, call.rel_dir).crystals[1], IndexOf(fs, call.rel_dir).crystals[2])
    /\ Last(history).from_index < IndexOf(fs, call.rel_dir).crystals[1].to_index + 1
    /\ Exists(fs, WorkspacePath(host, IndexOf(fs, call.rel_dir).crystals[1].path))

\* the engine as rollback(S) leaves it
RolledBackTo(snapshot_state) ==
    SubjectState(snapshot_state.value,
                 Append(snapshot_state.history,
                        [type |-> "ROLLBACK", to_value |-> snapshot_state.value,
                         to_budget |-> snapshot_state.budget]),
                 snapshot_state.budget)

\* the signature of the crystal the index of rel_dir lists last
LastListedSignature(files, rel_dir) ==
    IndexOf(files, rel_dir).crystals[Len(IndexOf(files, rel_dir).crystals)].signature

\* C39: an engine is rolled back to a snapshot S, crystallize writes a
\* crystal, the engine is rolled back to S again and crystallize is called
\* again with the same arguments: the second call finds the history the
\* first found, computes the signature the first listed and ends in
\* CRYSTAL_SKIP(DUPLICATE); it writes no file, leaves the index as it is
\* and takes 1 off the restored budget.
DuplicateAfterSecondRollback ==
    [][/\ pipeline'.pc \in {"rolled_back", "rolled_back_again"}
            => \A st \in {SubjectState(value', history', budget')} :
                   st = RolledBackTo(snap)
       /\ (pipeline.pc = "rolled_back_again" /\ pipeline'.pc = "done")
            => /\ result'.ret = None
               /\ history' =
                      Append(history,
                             [type |-> "CRYSTAL_SKIP", reason |-> "DUPLICATE",
                              signature |-> LastListedSignature(fs, pipeline.rel_dir),
                              last_event_index |-> StatedFromIndex(history, Len(history) + 1) - 1])
               /\ fs' = fs
               /\ budget' = snap.budget - 1
               /\ value' = snap.value]_vars

\* the second crystallize after the second rollback has ended in
\* CRYSTAL_SKIP(DUPLICATE), and the index lists the one crystal the first
\* wrote
SecondRollbackDeduplicated ==
    /\ pipeline.pc = "done"
    /\ call.op = "crystallize"
    /\ Last(history).type = "CRYSTAL_SKIP"
    /\ Last(history).reason = "DUPLICATE"
    /\ Len(history) >= 2
    /\ history[Len(history) - 1].type = "ROLLBACK"
    /\ budget = snap.budget - 1
    /\ Len(IndexOf(fs, pipeline.rel_dir).crystals) >= 1

====
